---------------------------- MODULE Spec2Model ----------------------------
(***************************************************************************)
(* Forum application: session lifecycle, vote engine and cascade deletes.  *)
(* Tables are sets of rows (records named after the SQL columns); every    *)
(* request is served by a worker that executes the handler's storage calls *)
(* one at a time, so that the calls of concurrent requests interleave.     *)
(* Time is counted in units of 12 hours.                                   *)
(***************************************************************************)
EXTENDS Integers, FiniteSets, Sequences, TLC

\* ------------------------------------------------------------------ bounds
NumUsers == 2
NumWorkers == 2
MaxRequests == 2
MaxTime == 3
MaxSubmitted == 4

\* -------------------------------------------------------- program constants
\* 24 * time.Hour, in units of 12 hours
SessionTTL == 2

UserIDs == 1..NumUsers
Workers == 1..NumWorkers
PostIDs == {1}
CommentIDs == {1}
NoCookie == 0
\* uuid.New().String(): the k-th token issued is k; every request issues at most one
Tokens == 1..(NumUsers + MaxRequests)

VARIABLES
    users,            \* table users: rows [id, email, username, role, display_name]
    foreign_keys,     \* whether the store enforces and cascades foreign keys
    categories,       \* table categories: rows [id, name]
    sqlite_sequence,  \* table sqlite_sequence: the largest id each AUTOINCREMENT table
                      \* has handed out (the rows of comments and users)
    sessions,         \* table sessions: rows [session_id, user_id, role, expiry]
    Sessions,         \* database.Sessions, the in-memory mirror: token -> SessionData
    posts,            \* table posts: rows [id, user_id]
    post_categories,  \* table post_categories: rows [post_id, category_id]
    post_votes,       \* table post_votes: rows [user_id, post_id, vote]
    comments,         \* table comments: rows [id, post_id, user_id]
    comment_votes,    \* table comment_votes: rows [user_id, comment_id, vote]
    now,              \* time.Now()
    nextToken,        \* number of uuid.New() results handed out so far
    pc,               \* per worker: the storage call the request executes next
    req,              \* per worker: the local variables of the handler
    out,              \* the last response sent
    nreq,             \* number of requests accepted so far
    everVoted,        \* history: <<table, target, user>> of every vote ever written
    lastWrite,        \* history: per <<table, target, user>>, the last vote request that
                      \* wrote: its kind, the vote it found, whether its read was current
    deletedPosts,     \* history: posts whose delete request reported success
    ended             \* history: tokens whose logout deleted the session row

vars == <<users, foreign_keys, categories, sqlite_sequence, sessions, Sessions, posts,
          post_categories, post_votes, comments, comment_votes, now, nextToken, pc, req, out,
          nreq, everVoted,
          lastWrite, deletedPosts, ended>>

SeedCategoriesWithoutOther ==
    <<"news", "life", "auto", "creative", "gadgets", "science", "games">>

\* ensureSchema: INSERT OR IGNORE INTO categories (name), in this order on an empty table
SeedCategories ==
    <<"news", "life", "auto", "creative", "gadgets", "science", "games", "other">>

\* PRAGMA foreign_keys of the connection
ForeignKeys == foreign_keys

\* ------------------------------------------------------------ storage layer
NoRow == [session_id |-> 0, user_id |-> 0, role |-> "", expiry |-> 0]

\* SELECT user_id, role, expiry FROM sessions WHERE session_id = ?
GetSessionData(tbl, sessionID) ==
    IF \E s \in tbl : s.session_id = sessionID
    THEN CHOOSE s \in tbl : s.session_id = sessionID
    ELSE NoRow

DeleteExpiredSessionKeepsRow(tbl, sessionID) == tbl

\* DELETE FROM sessions WHERE session_id = ?
DeleteExpiredSession(tbl, sessionID) == {s \in tbl : s.session_id # sessionID}

\* DELETE FROM sessions WHERE session_id = ?
DeleteSession(tbl, sessionID) == {s \in tbl : s.session_id # sessionID}

DeleteUserSessionsOfAll(tbl, userID) == {}

\* DELETE FROM sessions WHERE user_id = ?
DeleteUserSessions(tbl, userID) == {s \in tbl : s.user_id # userID}

\* INSERT INTO sessions (session_id, user_id, role, expiry) VALUES (?, ?, ?, ?)
CreateSession(tbl, sessionID, userID, role, expiry) ==
    tbl \cup {[session_id |-> sessionID, user_id |-> userID, role |-> role, expiry |-> expiry]}

UserExists(userID) == \E u \in users : u.id = userID
PostExists(postID) == \E p \in posts : p.id = postID
CommentExists(commentID) == \E c \in comments : c.id = commentID

GetPostOwnerIDZeroValue(tbl, postID) ==
    IF \E p \in tbl : p.id = postID THEN (CHOOSE p \in tbl : p.id = postID).user_id ELSE 1

\* SELECT user_id FROM posts WHERE id = ?  (0 stands for sql.ErrNoRows)
GetPostOwnerID(tbl, postID) ==
    IF \E p \in tbl : p.id = postID THEN (CHOOSE p \in tbl : p.id = postID).user_id ELSE 0

\* SELECT user_id FROM comments WHERE id = ?  (0 stands for sql.ErrNoRows)
GetCommentOwnerID(tbl, commentID) ==
    IF \E c \in tbl : c.id = commentID THEN (CHOOSE c \in tbl : c.id = commentID).user_id ELSE 0

\* SELECT vote FROM post_votes WHERE user_id = ? AND post_id = ?
GetUserPostVote(tbl, userID, postID) ==
    LET rows == {r \in tbl : r.user_id = userID /\ r.post_id = postID} IN
    IF rows = {} THEN [vote |-> 0, exists |-> FALSE]
    ELSE [vote |-> (CHOOSE r \in rows : TRUE).vote, exists |-> TRUE]

RemovePostVoteOfAllUsers(tbl, userID, postID) == {r \in tbl : r.post_id # postID}

\* DELETE FROM post_votes WHERE user_id = ? AND post_id = ?
RemovePostVote(tbl, userID, postID) ==
    {r \in tbl : ~(r.user_id = userID /\ r.post_id = postID)}

SetPostLikeNoUpsert(tbl, userID, postID) ==
    tbl \cup {[user_id |-> userID, post_id |-> postID, vote |-> 1]}

\* INSERT INTO post_votes ... VALUES (?, ?, 1) ON CONFLICT(user_id, post_id) DO UPDATE SET vote = 1
SetPostLike(tbl, userID, postID) ==
    {r \in tbl : ~(r.user_id = userID /\ r.post_id = postID)}
        \cup {[user_id |-> userID, post_id |-> postID, vote |-> 1]}

SetPostDislikeNoUpsert(tbl, userID, postID) ==
    tbl \cup {[user_id |-> userID, post_id |-> postID, vote |-> -1]}

SetPostDislikeDeleteOnly(tbl, userID, postID) ==
    {r \in tbl : ~(r.user_id = userID /\ r.post_id = postID)}

\* INSERT INTO post_votes ... VALUES (?, ?, -1) ON CONFLICT(user_id, post_id) DO UPDATE SET vote = -1
SetPostDislike(tbl, userID, postID) ==
    {r \in tbl : ~(r.user_id = userID /\ r.post_id = postID)}
        \cup {[user_id |-> userID, post_id |-> postID, vote |-> -1]}

\* SUM(CASE WHEN vote = v THEN 1 ELSE 0 END) over the selected rows
RECURSIVE SumCase(_, _)
SumCase(rows, v) ==
    IF rows = {} THEN 0
    ELSE LET r == CHOOSE x \in rows : TRUE IN
         (IF r.vote = v THEN 1 ELSE 0) + SumCase(rows \ {r}, v)

GetPostVoteStatsAllRows(tbl, userID, postID) ==
    LET rows == {r \in tbl : r.post_id = postID}
        mine == GetUserPostVote(tbl, userID, postID) IN
    [likes |-> Cardinality(rows), dislikes |-> SumCase(rows, -1),
     userVote |-> mine.vote, userVoteExists |-> mine.exists]

\* SELECT COALESCE(SUM(CASE WHEN vote = 1 ...), 0), COALESCE(SUM(CASE WHEN vote = -1 ...), 0),
\*        (SELECT vote FROM post_votes WHERE user_id = ? AND post_id = ?)
\* FROM post_votes WHERE post_id = ?
GetPostVoteStats(tbl, userID, postID) ==
    LET rows == {r \in tbl : r.post_id = postID}
        mine == GetUserPostVote(tbl, userID, postID) IN
    [likes |-> SumCase(rows, 1), dislikes |-> SumCase(rows, -1),
     userVote |-> mine.vote, userVoteExists |-> mine.exists]

\* SELECT vote FROM comment_votes WHERE user_id = ? AND comment_id = ?
GetUserCommentVote(tbl, userID, commentID) ==
    LET rows == {r \in tbl : r.user_id = userID /\ r.comment_id = commentID} IN
    IF rows = {} THEN [vote |-> 0, exists |-> FALSE]
    ELSE [vote |-> (CHOOSE r \in rows : TRUE).vote, exists |-> TRUE]

\* DELETE FROM comment_votes WHERE user_id = ? AND comment_id = ?
RemoveCommentVote(tbl, userID, commentID) ==
    {r \in tbl : ~(r.user_id = userID /\ r.comment_id = commentID)}

\* INSERT INTO comment_votes ... VALUES (?, ?, 1) ON CONFLICT(user_id, comment_id) DO UPDATE SET vote = 1
SetCommentLike(tbl, userID, commentID) ==
    {r \in tbl : ~(r.user_id = userID /\ r.comment_id = commentID)}
        \cup {[user_id |-> userID, comment_id |-> commentID, vote |-> 1]}

\* INSERT INTO comment_votes ... VALUES (?, ?, -1) ON CONFLICT(user_id, comment_id) DO UPDATE SET vote = -1
SetCommentDislike(tbl, userID, commentID) ==
    {r \in tbl : ~(r.user_id = userID /\ r.comment_id = commentID)}
        \cup {[user_id |-> userID, comment_id |-> commentID, vote |-> -1]}

\* SELECT ... FROM comment_votes WHERE comment_id = ?
GetCommentVoteStats(tbl, userID, commentID) ==
    LET rows == {r \in tbl : r.comment_id = commentID}
        mine == GetUserCommentVote(tbl, userID, commentID) IN
    [likes |-> SumCase(rows, 1), dislikes |-> SumCase(rows, -1),
     userVote |-> mine.vote, userVoteExists |-> mine.exists]

\* the largest id the posts table has ever used (AUTOINCREMENT)
LastPostID(tbl, deleted) ==
    LET used == {p.id : p \in tbl} \cup deleted \cup {0} IN
    CHOOSE m \in used : \A x \in used : x <= m

\* INSERT INTO posts (user_id, ...) VALUES (?, ...), then LastInsertId
CreatePost(tbl, postID, userID) == tbl \cup {[id |-> postID, user_id |-> userID]}

\* UPDATE posts SET title = ?, content = ?, image_url = ? WHERE id = ?  (columns that
\* are not in the model)
UpdatePost(tbl, postID) == tbl

\* SELECT id FROM categories WHERE name = ?  (0 stands for sql.ErrNoRows)
GetCategoryIDByName(tbl, catName) ==
    IF \E c \in tbl : c.name = catName THEN (CHOOSE c \in tbl : c.name = catName).id ELSE 0

\* PRIMARY KEY(post_id, category_id) and the two FOREIGN KEY clauses of post_categories
PostCategoryConstraints(tbl, postID, catID) ==
    /\ ~\E r \in tbl : r.post_id = postID /\ r.category_id = catID
    /\ ForeignKeys => PostExists(postID) /\ \E c \in categories : c.id = catID

\* INSERT INTO post_categories (post_id, category_id) VALUES (?, ?)
AddPostCategory(tbl, postID, catID) ==
    tbl \cup {[post_id |-> postID, category_id |-> catID]}

\* DELETE FROM post_categories WHERE post_id = ?
DeletePostCategories(tbl, postID) == {r \in tbl : r.post_id # postID}

\* DELETE FROM comments WHERE post_id = ?
DeletePostComments(tbl, postID) == {c \in tbl : c.post_id # postID}

\* DELETE FROM post_votes WHERE post_id = ?
DeletePostVotes(tbl, postID) == {r \in tbl : r.post_id # postID}

DeletePostKeepsRow(tbl, postID) == tbl

\* DELETE FROM posts WHERE id = ?
DeletePost(tbl, postID) == {p \in tbl : p.id # postID}

DeleteCommentVotesOfAll(tbl, commentID) == {}

\* DELETE FROM comment_votes WHERE comment_id = ?
DeleteCommentVotes(tbl, commentID) == {r \in tbl : r.comment_id # commentID}

\* DELETE FROM comments WHERE id = ?
DeleteComment(tbl, commentID) == {c \in tbl : c.id # commentID}

\* FOREIGN KEY(comment_id) REFERENCES comments(id) ON DELETE CASCADE
CascadeCommentVotes(tbl, remainingComments) ==
    IF ForeignKeys
    THEN {r \in tbl : \E c \in remainingComments : c.id = r.comment_id}
    ELSE tbl


\* ------------------------------------------------------------ request state
\* what database.Sessions holds for a token it has no entry for
NoSessionData == [UserID |-> 0, Role |-> "", Expiry |-> 0]

VoteKinds == {"LikeHandler", "DislikeHandler", "CommentLikeHandler", "CommentDislikeHandler"}
PostVoteKinds == {"LikeHandler", "DislikeHandler"}

IdleReq == [kind |-> "none", cookie |-> NoCookie, target |-> 0, userID |-> 0, role |-> "",
            expiry |-> 0, currentVote |-> 0, voteExists |-> FALSE, err |-> FALSE,
            fresh |-> FALSE, branch |-> "", authErr |-> FALSE, again |-> FALSE,
            cats |-> <<>>, removed |-> FALSE, email |-> "", username |-> <<>>,
            displayName |-> <<>>]

\* the locals of a request that arrives (history: again, a delete of the same post has
\* reported success before; removed, the DeleteUserSessions of this login has deleted a row)
NewReq(kind, cookie, target) ==
    [IdleReq EXCEPT !.kind = kind, !.cookie = cookie, !.target = target,
                    !.again = (kind = "DeletePostHandler" /\ target \in deletedPosts)]

NoResp == [status |-> "", likes |-> 0, dislikes |-> 0, user_vote |-> 0,
           set_cookie |-> NoCookie]

Status(s) == [NoResp EXCEPT !.status = s]

TableOf(kind) == IF kind \in PostVoteKinds THEN "post" ELSE "comment"

\* the vote row a request is about: <<table, target, user>>
PairOf(r) == <<TableOf(r.kind), r.target, r.userID>>

\* a vote request that has read its row holds a stale read once the row is written
Stale(r, written) ==
    IF r.kind \in VoteKinds /\ PairOf(r) \in written
    THEN [r EXCEPT !.fresh = FALSE]
    ELSE r

\* the vote rows of the comments of a post, and of a post
CommentRowsOf(postID) ==
    {<<"comment", c.id, u>> : c \in {x \in comments : x.post_id = postID}, u \in UserIDs}

PostRowsOf(postID) == {<<"post", postID, u>> : u \in UserIDs}

\* the worker w goes on to the storage call named label with locals r, having sent o if
\* it finished and having written the vote rows in written
Step(w, label, r, o, written) ==
    /\ pc' = [pc EXCEPT ![w] = label]
    /\ req' = [x \in Workers |-> IF x = w THEN r ELSE Stale(req[x], written)]
    /\ out' = o

\* the worker w finishes its request with response o
Reply(w, o) == Step(w, "idle", IdleReq, o, {})

\* the worker w finishes its request with response o because its storage call failed
\* (history: an idle worker keeps err until its next request)
Fail(w, o) == Step(w, "idle", [IdleReq EXCEPT !.err = TRUE], o, {})

\* the worker w goes on to the storage call named label, its locals now r
Goto(w, label, r) == Step(w, label, r, out, {})

\* the cookie of a request: none, or a token issued earlier
Cookies == {NoCookie} \cup 1..nextToken

\* ------------------------------------------------------------- IsAuthenticated
\* what each handler does with IsAuthenticated's result (false, 0, "")
Unauthenticated(w, r) ==
    LET k == r.kind IN
    CASE k \in PostVoteKinds -> Reply(w, Status("Not authenticated."))
      [] k \in VoteKinds \ PostVoteKinds -> Reply(w, Status("Redirect"))
      [] k = "DeletePostHandler" -> Reply(w, Status("Not authenticated."))
      [] k = "DeleteCommentHandler" -> Reply(w, Status("Not authenticated."))
      [] k = "PostHandler" -> Goto(w, "GetPostByID", r)
      [] k = "LoginHandler" -> Goto(w, "GetUserByEmail", r)
      [] k = "CreatePostHandler" -> Reply(w, Status("/login?redirect=/create-post"))
      [] k = "EditPostHandler" -> Reply(w, Status("/login?redirect=/edit-post"))
      [] k = "CommentHandler" -> Reply(w, Status("/?message=Login+please"))
      [] k = "RegisterHandler" -> Goto(w, "EmailExists", r)
      [] k = "UpdateProfileHandler" -> Reply(w, Status("Unauthorized"))

\* what each handler does with IsAuthenticated's result (true, userID, role)
Authenticated(w, r) ==
    LET k == r.kind IN
    CASE k \in VoteKinds -> Goto(w, "GetUserVote", r)
      [] k = "DeletePostHandler" -> Goto(w, "GetPostOwnerID", r)
      [] k = "DeleteCommentHandler" -> Goto(w, "GetCommentOwnerID", r)
      [] k = "PostHandler" -> Goto(w, "GetPostByID", r)
      [] k = "LoginHandler" -> Reply(w, Status("Redirect"))
      [] k = "CreatePostHandler" -> Goto(w, "CreateGetUsernameByID", r)
      [] k = "EditPostHandler" -> Goto(w, "EditGetUsernameByID", r)
      [] k = "CommentHandler" -> Goto(w, "CreateComment", r)
      [] k = "RegisterHandler" -> Reply(w, Status("Redirect"))
      [] k = "UpdateProfileHandler" -> Goto(w, "ProfileGetUsernameByID", r)

\* expiry.Before(time.Now())
Expired(expiry, t) == expiry < t

IsAuthenticatedBranchFromMirror(tbl, cookie, t, dbErr) ==
    IF cookie = NoCookie THEN "no cookie"
    ELSE IF Sessions[cookie].UserID # 0 /\ ~Expired(Sessions[cookie].Expiry, t) THEN "live"
    ELSE IF ~dbErr /\ GetSessionData(tbl, cookie) = NoRow THEN "not found"
    ELSE IF dbErr THEN "error"
    ELSE IF Expired(GetSessionData(tbl, cookie).expiry, t) THEN "expired"
    ELSE "live"

IsAuthenticatedBranchIgnoresError(tbl, cookie, t, dbErr) ==
    IF cookie = NoCookie THEN "no cookie"
    ELSE IF GetSessionData(tbl, cookie) = NoRow THEN "not found"
    ELSE IF Expired(GetSessionData(tbl, cookie).expiry, t) THEN "expired"
    ELSE "live"

\* the path IsAuthenticated takes: no cookie, sql.ErrNoRows, another error of
\* GetSessionData, an expired row, a live row
IsAuthenticatedBranch(tbl, cookie, t, dbErr) ==
    IF cookie = NoCookie THEN "no cookie"
    ELSE IF ~dbErr /\ GetSessionData(tbl, cookie) = NoRow THEN "not found"
    ELSE IF dbErr THEN "error"
    ELSE IF Expired(GetSessionData(tbl, cookie).expiry, t) THEN "expired"
    ELSE "live"

IsAuthenticatedReturnNamesExpired(branch, row) ==
    CASE branch = "no cookie" -> [isAuth |-> FALSE, userID |-> 0, role |-> ""]
      [] branch = "not found" -> [isAuth |-> FALSE, userID |-> 0, role |-> ""]
      [] branch = "error" -> [isAuth |-> FALSE, userID |-> 0, role |-> ""]
      [] branch = "expired" -> [isAuth |-> FALSE, userID |-> row.user_id, role |-> row.role]
      [] branch = "live" -> [isAuth |-> TRUE, userID |-> row.user_id, role |-> row.role]

\* the values IsAuthenticated returns on each path
IsAuthenticatedReturn(branch, row) ==
    CASE branch = "no cookie" -> [isAuth |-> FALSE, userID |-> 0, role |-> ""]
      [] branch = "not found" -> [isAuth |-> FALSE, userID |-> 0, role |-> ""]
      [] branch = "error" -> [isAuth |-> FALSE, userID |-> 0, role |-> ""]
      [] branch = "expired" -> [isAuth |-> FALSE, userID |-> 0, role |-> ""]
      [] branch = "live" -> [isAuth |-> TRUE, userID |-> row.user_id, role |-> row.role]

\* A request arrives at an idle worker, which runs the handler up to and including
\* IsAuthenticated's cookie lookup, GetSessionData and expiry test.
Accept(w, kind, cookie, target) ==
    /\ pc[w] = "idle"
    /\ nreq < MaxRequests
    /\ nreq' = nreq + 1
    /\ \E dbErr \in BOOLEAN :
         LET branch == IsAuthenticatedBranch(sessions, cookie, now, dbErr)
             row == GetSessionData(sessions, cookie)
             ret == IsAuthenticatedReturn(branch, row)
             r == [NewReq(kind, cookie, target) EXCEPT
                     !.branch = branch,
                     !.authErr = (dbErr /\ cookie # NoCookie),
                     !.userID = ret.userID,
                     !.role = ret.role,
                     !.expiry = IF branch \in {"expired", "live"} THEN row.expiry ELSE 0] IN
         IF branch = "expired" THEN Goto(w, "DeleteExpiredSession", r)
         ELSE IF ret.isAuth THEN Goto(w, "SessionsStore", r)
         ELSE Unauthenticated(w, r)
    /\ UNCHANGED <<users, foreign_keys, categories, sqlite_sequence,
                   sessions, Sessions, posts, post_categories, post_votes, comments,
                   comment_votes, now, nextToken, everVoted, lastWrite, deletedPosts, ended>>

\* the expired branch: DeleteExpiredSession, its failure only logged
IsAuthenticatedDeleteExpired(w) ==
    /\ pc[w] = "DeleteExpiredSession"
    /\ \E dbErr \in BOOLEAN :
         /\ sessions' = IF dbErr THEN sessions
                        ELSE DeleteExpiredSession(sessions, req[w].cookie)
         /\ Unauthenticated(w, [req[w] EXCEPT !.authErr = dbErr])
    /\ UNCHANGED <<users, foreign_keys, categories, sqlite_sequence,
                   Sessions, posts, post_categories, post_votes, comments,
                   comment_votes, now, nextToken, nreq, everVoted, lastWrite, deletedPosts, ended>>

\* the steps that touch database.Sessions, and whether they hold SessionsMu meanwhile
MirrorAccess == {"SessionsStore", "SessionsDelete"}

Locked(label) == label = "SessionsStore"

\* the next step of w touches the mirror while another worker is about to touch it too,
\* and the two are not both under the lock: a data race on the map
Races(w) ==
    \E x \in Workers \ {w} :
        /\ pc[w] \in MirrorAccess /\ pc[x] \in MirrorAccess
        /\ ~Locked(pc[w]) \/ ~Locked(pc[x])

\* the runtime stops the process (fatal error: concurrent map writes)
Crash ==
    /\ pc' = [x \in Workers |-> "crashed"]
    /\ req' = req
    /\ out' = out

\* the live branch: SessionsMu.Lock(); Sessions[cookie.Value] = ...; SessionsMu.Unlock().
\* In a data race the write takes effect, or is lost, or leaves the map without the
\* entry, or the process stops.
IsAuthenticatedStore(w) ==
    /\ pc[w] = "SessionsStore"
    /\ \/ /\ Sessions' = [Sessions EXCEPT ![req[w].cookie] =
                            [UserID |-> req[w].userID, Role |-> req[w].role,
                             Expiry |-> req[w].expiry]]
          /\ Authenticated(w, req[w])
       \/ /\ Races(w)
          /\ \E entry \in {Sessions[req[w].cookie], NoSessionData} :
                Sessions' = [Sessions EXCEPT ![req[w].cookie] = entry]
          /\ Authenticated(w, req[w])
       \/ /\ Races(w)
          /\ Sessions' = Sessions
          /\ Crash
    /\ UNCHANGED <<users, foreign_keys, categories, sqlite_sequence,
                   sessions, posts, post_categories, post_votes, comments,
                   comment_votes, now, nextToken, nreq, everVoted, lastWrite, deletedPosts,
                   ended>>

\* IsAuthenticated's result for a cookie when GetSessionData does not fail
Resolves(tbl, cookie, t) ==
    /\ cookie # NoCookie
    /\ GetSessionData(tbl, cookie) # NoRow
    /\ ~Expired(GetSessionData(tbl, cookie).expiry, t)

\* ------------------------------------------------------------- LoginHandler
\* POST /login with the e-mail of the user userID
LoginHandler(w) ==
    \E c \in Cookies, userID \in {u.id : u \in users} : Accept(w, "LoginHandler", c, userID)

\* GetUserByEmail and bcrypt.CompareHashAndPassword; from here on the handler uses
\* neither the cookie nor anything IsAuthenticated has read
LoginGetUserByEmail(w) ==
    /\ pc[w] = "GetUserByEmail"
    /\ \E dbErr \in BOOLEAN, passwordOK \in BOOLEAN :
         IF dbErr \/ ~UserExists(req[w].target) \/ ~passwordOK
         THEN Reply(w, Status("Invalid email or password"))
         ELSE Goto(w, "DeleteUserSessions",
                   [NewReq("LoginHandler", NoCookie, req[w].target) EXCEPT
                      !.userID = req[w].target,
                      !.role = (CHOOSE u \in users : u.id = req[w].target).role])
    /\ UNCHANGED <<users, foreign_keys, categories, sqlite_sequence,
                   sessions, Sessions, posts, post_categories, post_votes, comments,
                   comment_votes, now, nextToken, nreq, everVoted, lastWrite, deletedPosts, ended>>

\* DeleteUserSessions
LoginDeleteUserSessions(w) ==
    /\ pc[w] = "DeleteUserSessions"
    /\ \E dbErr \in BOOLEAN :
         IF dbErr
         THEN /\ Reply(w, Status("Internal Server Error"))
              /\ UNCHANGED sessions
         ELSE /\ sessions' = DeleteUserSessions(sessions, req[w].userID)
              /\ Goto(w, "CreateSession", [req[w] EXCEPT !.removed = (sessions' # sessions)])
    /\ UNCHANGED <<users, foreign_keys, categories, sqlite_sequence,
                   Sessions, posts, post_categories, post_votes, comments,
                   comment_votes, now, nextToken, nreq, everVoted, lastWrite, deletedPosts, ended>>

\* uuid.New(), time.Now().Add(24 * time.Hour), CreateSession, the cookie and the redirect
LoginCreateSession(w) ==
    /\ pc[w] = "CreateSession"
    /\ nextToken' = nextToken + 1
    /\ \E dbErr \in BOOLEAN :
         LET sessionID == nextToken + 1
             expiry == now + SessionTTL IN
         IF dbErr
         THEN /\ Reply(w, Status("Internal Server Error"))
              /\ UNCHANGED sessions
         ELSE /\ sessions' = CreateSession(sessions, sessionID, req[w].userID, req[w].role, expiry)
              /\ Reply(w, [Status("Redirect") EXCEPT !.set_cookie = sessionID])
    /\ UNCHANGED <<users, foreign_keys, categories, sqlite_sequence,
                   Sessions, posts, post_categories, post_votes, comments,
                   comment_votes, now, nreq, everVoted, lastWrite, deletedPosts, ended>>

\* ------------------------------------------------------------- LogoutHandler
\* the cookie with empty value and Expires: time.Unix(0, 0)
ClearedCookie == -1

LogoutResponseFailClosed(err) ==
    IF err THEN Status("Internal Server Error")
    ELSE [Status("Redirect") EXCEPT !.set_cookie = ClearedCookie]

\* what LogoutHandler answers to a request with a cookie, err being DeleteSession's error
LogoutResponse(err) == [Status("Redirect") EXCEPT !.set_cookie = ClearedCookie]

\* GET /logout: without a cookie, the redirect alone
LogoutHandler(w) ==
    /\ pc[w] = "idle"
    /\ nreq < MaxRequests
    /\ nreq' = nreq + 1
    /\ \E c \in Cookies :
         IF c = NoCookie THEN Reply(w, Status("Redirect"))
         ELSE Goto(w, "DeleteSession", NewReq("LogoutHandler", c, 0))
    /\ UNCHANGED <<users, foreign_keys, categories, sqlite_sequence,
                   sessions, Sessions, posts, post_categories, post_votes, comments,
                   comment_votes, now, nextToken, everVoted, lastWrite, deletedPosts, ended>>

\* DeleteSession: the DELETE; on its failure DeleteSession returns before the mirror
LogoutDeleteSession(w) ==
    /\ pc[w] = "DeleteSession"
    /\ \E dbErr \in BOOLEAN :
         IF dbErr
         THEN /\ Reply(w, LogoutResponse(TRUE))
              /\ UNCHANGED <<sessions, ended>>
         ELSE /\ sessions' = DeleteSession(sessions, req[w].cookie)
              /\ ended' = ended \cup {req[w].cookie}
              /\ Goto(w, "SessionsDelete", req[w])
    /\ UNCHANGED <<users, foreign_keys, categories, sqlite_sequence,
                   Sessions, posts, post_categories, post_votes, comments,
                   comment_votes, now, nextToken, nreq, everVoted, lastWrite, deletedPosts>>

\* DeleteSession: delete(Sessions, sessionID), without SessionsMu; then the response.
\* In a data race the delete takes effect, or is lost, or the process stops.
LogoutSessionsDelete(w) ==
    /\ pc[w] = "SessionsDelete"
    /\ \/ /\ Sessions' = [Sessions EXCEPT ![req[w].cookie] = NoSessionData]
          /\ Reply(w, LogoutResponse(FALSE))
       \/ /\ Races(w)
          /\ Sessions' = Sessions
          /\ Reply(w, LogoutResponse(FALSE))
       \/ /\ Races(w)
          /\ Sessions' = Sessions
          /\ Crash
    /\ UNCHANGED <<users, foreign_keys, categories, sqlite_sequence,
                   sessions, posts, post_categories, post_votes, comments,
                   comment_votes, now, nextToken, nreq, everVoted, lastWrite, deletedPosts,
                   ended>>

\* time passes
Tick ==
    /\ now < MaxTime
    /\ now' = now + 1
    /\ UNCHANGED <<users, foreign_keys, categories, sqlite_sequence,
                   sessions, Sessions, posts, post_categories, post_votes, comments,
                   comment_votes, nextToken, pc, req, out, nreq, everVoted, lastWrite,
                   deletedPosts, ended>>

\* ------------------------------------------------------------- vote handlers
Polarity(kind) == IF kind \in {"LikeHandler", "CommentLikeHandler"} THEN 1 ELSE -1

\* the handlers' first storage call: GetUserPostVote / GetUserCommentVote
VoteGetUserVote(w) ==
    /\ pc[w] = "GetUserVote"
    /\ \E dbErr \in BOOLEAN :
         LET cur == IF req[w].kind \in PostVoteKinds
                    THEN GetUserPostVote(post_votes, req[w].userID, req[w].target)
                    ELSE GetUserCommentVote(comment_votes, req[w].userID, req[w].target) IN
         IF dbErr THEN Reply(w, Status("Server error."))
         ELSE Goto(w, "SetVote", [req[w] EXCEPT !.currentVote = cur.vote,
                                                !.voteExists = cur.exists, !.fresh = TRUE])
    /\ UNCHANGED <<users, foreign_keys, categories, sqlite_sequence,
                   sessions, Sessions, posts, post_categories, post_votes, comments,
                   comment_votes, now, nextToken, nreq, everVoted, lastWrite, deletedPosts, ended>>

RemovesVoteAlways(kind, currentVote, voteExists) == voteExists

RemovesVoteNever(kind, currentVote, voteExists) == FALSE

\* if voteExists && currentVote == 1 (LikeHandler) / == -1 (DislikeHandler)
RemovesVote(kind, currentVote, voteExists) == voteExists /\ currentVote = Polarity(kind)

\* FOREIGN KEY(user_id) REFERENCES users(id), FOREIGN KEY(post_id) REFERENCES posts(id)
PostVoteForeignKeys(userID, postID) == ~ForeignKeys \/ (UserExists(userID) /\ PostExists(postID))

\* FOREIGN KEY(user_id) REFERENCES users(id), FOREIGN KEY(comment_id) REFERENCES comments(id)
CommentVoteForeignKeys(userID, commentID) ==
    ~ForeignKeys \/ (UserExists(userID) /\ CommentExists(commentID))

\* the table post_votes after the handler's write
PostVoteWrite(kind, tbl, userID, postID, currentVote, voteExists) ==
    IF RemovesVote(kind, currentVote, voteExists) THEN RemovePostVote(tbl, userID, postID)
    ELSE IF kind = "LikeHandler" THEN SetPostLike(tbl, userID, postID)
    ELSE SetPostDislike(tbl, userID, postID)

\* the table comment_votes after the handler's write
CommentVoteWrite(kind, tbl, userID, commentID, currentVote, voteExists) ==
    IF RemovesVote(kind, currentVote, voteExists) THEN RemoveCommentVote(tbl, userID, commentID)
    ELSE IF kind = "CommentLikeHandler" THEN SetCommentLike(tbl, userID, commentID)
    ELSE SetCommentDislike(tbl, userID, commentID)

VoteState(rows) ==
    IF rows = {} THEN "NoVote"
    ELSE IF rows = {r \in rows : r.vote = 1} /\ Cardinality(rows) = 1 THEN "Liked"
    ELSE IF rows = {r \in rows : r.vote = -1} /\ Cardinality(rows) = 1 THEN "Disliked"
    ELSE "Corrupt"

PostVoteState(tbl, userID, postID) ==
    VoteState({r \in tbl : r.user_id = userID /\ r.post_id = postID})

CommentVoteState(tbl, userID, commentID) ==
    VoteState({r \in tbl : r.user_id = userID /\ r.comment_id = commentID})

\* the vote state of the pair a vote request r is about
StateOf(pv, cv, r) ==
    IF r.kind \in PostVoteKinds THEN PostVoteState(pv, r.userID, r.target)
    ELSE CommentVoteState(cv, r.userID, r.target)

\* the second storage call: RemovePostVote or SetPostLike / SetPostDislike (and the
\* comment counterparts); an insert that breaks a foreign key fails like any storage error
VoteSetVote(w) ==
    /\ pc[w] = "SetVote"
    /\ LET r == req[w]
           removes == RemovesVote(r.kind, r.currentVote, r.voteExists)
           isPost == r.kind \in PostVoteKinds
           fkOK == IF isPost THEN PostVoteForeignKeys(r.userID, r.target)
                   ELSE CommentVoteForeignKeys(r.userID, r.target) IN
       \E dbErr \in BOOLEAN :
         IF dbErr \/ (~removes /\ ~fkOK)
         THEN /\ Reply(w, Status("Server error."))
              /\ UNCHANGED <<post_votes, comment_votes, everVoted, lastWrite>>
         ELSE /\ Step(w, "GetVoteStats", [r EXCEPT !.fresh = FALSE], out, {PairOf(r)})
              /\ post_votes' = IF isPost
                               THEN PostVoteWrite(r.kind, post_votes, r.userID, r.target,
                                                  r.currentVote, r.voteExists)
                               ELSE post_votes
              /\ comment_votes' = IF isPost THEN comment_votes
                                  ELSE CommentVoteWrite(r.kind, comment_votes, r.userID,
                                                        r.target, r.currentVote, r.voteExists)
              /\ everVoted' = IF removes THEN everVoted ELSE everVoted \cup {PairOf(r)}
              /\ lastWrite' = [lastWrite EXCEPT ![PairOf(r)] =
                                 [kind |-> IF Polarity(r.kind) = 1 THEN "like" ELSE "dislike",
                                  prior |-> StateOf(post_votes, comment_votes, r),
                                  fresh |-> r.fresh]]
    /\ UNCHANGED <<users, foreign_keys, categories, sqlite_sequence,
                   sessions, Sessions, posts, post_categories, comments,
                   now, nextToken, nreq, deletedPosts, ended>>

\* the JSON response built from GetPostVoteStats / GetCommentVoteStats
StatsResponse(st) ==
    [status |-> "success", likes |-> st.likes, dislikes |-> st.dislikes,
     user_vote |-> IF st.userVoteExists THEN st.userVote ELSE 0]

\* the third storage call: GetPostVoteStats / GetCommentVoteStats
VoteGetVoteStats(w) ==
    /\ pc[w] = "GetVoteStats"
    /\ req[w].kind \in VoteKinds
    /\ \E dbErr \in BOOLEAN :
         LET st == IF req[w].kind \in PostVoteKinds
                   THEN GetPostVoteStats(post_votes, req[w].userID, req[w].target)
                   ELSE GetCommentVoteStats(comment_votes, req[w].userID, req[w].target) IN
         IF dbErr THEN Reply(w, Status("Server error."))
         ELSE Reply(w, StatsResponse(st))
    /\ UNCHANGED <<users, foreign_keys, categories, sqlite_sequence,
                   sessions, Sessions, posts, post_categories, post_votes, comments,
                   comment_votes, now, nextToken, nreq, everVoted, lastWrite, deletedPosts, ended>>

LikeHandler(w) == \E c \in Cookies, p \in PostIDs : Accept(w, "LikeHandler", c, p)

DislikeHandler(w) ==
    \E c \in Cookies, p \in PostIDs : Accept(w, "DislikeHandler", c, p)

CommentLikeHandler(w) ==
    \E c \in Cookies, p \in CommentIDs : Accept(w, "CommentLikeHandler", c, p)

CommentDislikeHandler(w) ==
    \E c \in Cookies, p \in CommentIDs : Accept(w, "CommentDislikeHandler", c, p)


\* --------------------------------------------------------- DeletePostHandler
ForbiddenNever(userID, role, ownerID) == FALSE

\* userID != postUserID && role != "admin"; role != "admin" && userID != commentOwnerID
Forbidden(userID, role, ownerID) == userID # ownerID /\ role # "admin"

\* GetPostOwnerID, whose every error is answered as 404, and the authorization test
DeletePostGetPostOwnerID(w) ==
    /\ pc[w] = "GetPostOwnerID"
    /\ \E dbErr \in BOOLEAN :
         LET postUserID == GetPostOwnerID(posts, req[w].target) IN
         IF dbErr THEN Fail(w, Status("Post not found."))
         ELSE IF postUserID = 0 THEN Reply(w, Status("Post not found."))
         ELSE IF Forbidden(req[w].userID, req[w].role, postUserID)
         THEN Reply(w, Status("Unauthorized."))
         ELSE Goto(w, "DeletePostCategories", req[w])
    /\ UNCHANGED <<users, foreign_keys, categories, sqlite_sequence,
                   sessions, Sessions, posts, post_categories, post_votes, comments,
                   comment_votes, now, nextToken, nreq, everVoted, lastWrite, deletedPosts, ended>>

DeletePostDeleteCategoriesThenVotes(w) ==
    /\ pc[w] = "DeletePostCategories"
    /\ \E dbErr \in BOOLEAN :
         IF dbErr THEN Fail(w, Status("Server error.")) /\ UNCHANGED post_categories
         ELSE /\ Goto(w, "DeletePostVotes", req[w])
              /\ post_categories' = DeletePostCategories(post_categories, req[w].target)
    /\ UNCHANGED <<users, foreign_keys, categories, sqlite_sequence,
                   sessions, Sessions, posts, post_votes, comments,
                   comment_votes, now, nextToken, nreq, everVoted, lastWrite, deletedPosts, ended>>

DeletePostDeleteCategories(w) ==
    /\ pc[w] = "DeletePostCategories"
    /\ \E dbErr \in BOOLEAN :
         IF dbErr THEN Fail(w, Status("Server error.")) /\ UNCHANGED post_categories
         ELSE /\ Goto(w, "DeletePostComments", req[w])
              /\ post_categories' = DeletePostCategories(post_categories, req[w].target)
    /\ UNCHANGED <<users, foreign_keys, categories, sqlite_sequence,
                   sessions, Sessions, posts, post_votes, comments,
                   comment_votes, now, nextToken, nreq, everVoted, lastWrite, deletedPosts, ended>>

\* DeletePostComments; the votes of the deleted comments go with them (ON DELETE CASCADE)
DeletePostDeleteComments(w) ==
    /\ pc[w] = "DeletePostComments"
    /\ \E dbErr \in BOOLEAN :
         IF dbErr THEN Fail(w, Status("Server error.")) /\ UNCHANGED <<comments, comment_votes>>
         ELSE /\ Step(w, "DeletePostVotes", req[w], out, CommentRowsOf(req[w].target))
              /\ comments' = DeletePostComments(comments, req[w].target)
              /\ comment_votes' = CascadeCommentVotes(comment_votes, comments')
    /\ UNCHANGED <<users, foreign_keys, categories, sqlite_sequence,
                   sessions, Sessions, posts, post_categories, post_votes,
                   now, nextToken, nreq, everVoted, lastWrite, deletedPosts, ended>>

DeletePostDeleteVotesContinues(w) ==
    /\ pc[w] = "DeletePostVotes"
    /\ \E dbErr \in BOOLEAN :
         IF dbErr THEN Goto(w, "DeletePost", [req[w] EXCEPT !.err = TRUE]) /\ UNCHANGED post_votes
         ELSE /\ Step(w, "DeletePost", req[w], out, PostRowsOf(req[w].target))
              /\ post_votes' = DeletePostVotes(post_votes, req[w].target)
    /\ UNCHANGED <<users, foreign_keys, categories, sqlite_sequence,
                   sessions, Sessions, posts, post_categories, comments,
                   comment_votes, now, nextToken, nreq, everVoted, lastWrite, deletedPosts, ended>>

DeletePostDeleteVotes(w) ==
    /\ pc[w] = "DeletePostVotes"
    /\ \E dbErr \in BOOLEAN :
         IF dbErr THEN Fail(w, Status("Server error.")) /\ UNCHANGED post_votes
         ELSE /\ Step(w, "DeletePost", req[w], out, PostRowsOf(req[w].target))
              /\ post_votes' = DeletePostVotes(post_votes, req[w].target)
    /\ UNCHANGED <<users, foreign_keys, categories, sqlite_sequence,
                   sessions, Sessions, posts, post_categories, comments,
                   comment_votes, now, nextToken, nreq, everVoted, lastWrite, deletedPosts, ended>>

\* DeletePost; with foreign keys on, the rows that reference the post go with it
DeletePostDeletePost(w) ==
    /\ pc[w] = "DeletePost"
    /\ \E dbErr \in BOOLEAN :
         IF dbErr
         THEN /\ Fail(w, Status("Server error."))
              /\ UNCHANGED <<posts, post_categories, post_votes, comments, comment_votes,
                             deletedPosts>>
         ELSE /\ Step(w, "idle", IdleReq, Status("Post deleted successfully."),
                      CommentRowsOf(req[w].target) \cup PostRowsOf(req[w].target))
              /\ posts' = DeletePost(posts, req[w].target)
              /\ post_categories' = IF ForeignKeys
                                    THEN DeletePostCategories(post_categories, req[w].target)
                                    ELSE post_categories
              /\ post_votes' = IF ForeignKeys THEN DeletePostVotes(post_votes, req[w].target)
                               ELSE post_votes
              /\ comments' = IF ForeignKeys THEN DeletePostComments(comments, req[w].target)
                             ELSE comments
              /\ comment_votes' = CascadeCommentVotes(comment_votes, comments')
              /\ deletedPosts' = deletedPosts \cup {req[w].target}
    /\ UNCHANGED <<users, foreign_keys, categories, sqlite_sequence,
                   sessions, Sessions, now, nextToken, nreq, everVoted, lastWrite,
                   ended>>

DeletePostHandler(w) == \E c \in Cookies, p \in PostIDs : Accept(w, "DeletePostHandler", c, p)

\* ------------------------------------------------------ DeleteCommentHandler
\* GetCommentOwnerID, then the tests in the handler's order: sql.ErrNoRows, the
\* authorization against the owner id returned (0 when the query failed), any other error
DeleteCommentGetCommentOwnerID(w) ==
    /\ pc[w] = "GetCommentOwnerID"
    /\ \E dbErr \in BOOLEAN :
         LET found == GetCommentOwnerID(comments, req[w].target)
             commentOwnerID == IF dbErr THEN 0 ELSE found IN
         IF ~dbErr /\ found = 0 THEN Reply(w, Status("Comment not found."))
         ELSE IF Forbidden(req[w].userID, req[w].role, commentOwnerID)
         THEN IF dbErr THEN Fail(w, Status("Unauthorized."))
              ELSE Reply(w, Status("Unauthorized."))
         ELSE IF dbErr THEN Fail(w, Status("Server error."))
         ELSE Goto(w, "DeleteCommentVotes", req[w])
    /\ UNCHANGED <<users, foreign_keys, categories, sqlite_sequence,
                   sessions, Sessions, posts, post_categories, post_votes,
                   comments, comment_votes, now, nextToken, nreq, everVoted, lastWrite,
                   deletedPosts, ended>>

\* the vote rows of a comment
CommentVoteRowsOf(commentID) == {<<"comment", commentID, u>> : u \in UserIDs}

DeleteCommentDeleteVotes(w) ==
    /\ pc[w] = "DeleteCommentVotes"
    /\ \E dbErr \in BOOLEAN :
         IF dbErr THEN Fail(w, Status("Server error.")) /\ UNCHANGED comment_votes
         ELSE /\ Step(w, "DeleteComment", req[w], out, CommentVoteRowsOf(req[w].target))
              /\ comment_votes' = DeleteCommentVotes(comment_votes, req[w].target)
    /\ UNCHANGED <<users, foreign_keys, categories, sqlite_sequence,
                   sessions, Sessions, posts, post_categories, post_votes,
                   comments, now, nextToken, nreq, everVoted, lastWrite, deletedPosts, ended>>

\* DeleteComment; with foreign keys on, the votes of the comment go with it
DeleteCommentDeleteComment(w) ==
    /\ pc[w] = "DeleteComment"
    /\ \E dbErr \in BOOLEAN :
         IF dbErr THEN Fail(w, Status("Server error.")) /\ UNCHANGED <<comments, comment_votes>>
         ELSE /\ Step(w, "idle", IdleReq, Status("Comment deleted."),
                      CommentVoteRowsOf(req[w].target))
              /\ comments' = DeleteComment(comments, req[w].target)
              /\ comment_votes' = CascadeCommentVotes(comment_votes, comments')
    /\ UNCHANGED <<users, foreign_keys, categories, sqlite_sequence,
                   sessions, Sessions, posts, post_categories, post_votes,
                   now, nextToken, nreq, everVoted, lastWrite, deletedPosts, ended>>

DeleteCommentHandler(w) ==
    \E c \in Cookies, k \in CommentIDs \cup {x.id : x \in comments} :
        Accept(w, "DeleteCommentHandler", c, k)

\* ------------------------------------------- CreatePostHandler, EditPostHandler
\* allowedCategories of both handlers
allowedCategories ==
    {"news", "gadgets", "life", "auto", "creative", "science", "games", "other"}

\* the category names a form may carry: known ones, one in capitals, an unknown one
RawNames == {"news", "Life", "auto", "sport"}

\* r.Form["categories"]
Forms == UNION {[1..n -> RawNames] : n \in 0..MaxSubmitted}

\* strings.ToLower
ToLower(name) == IF name = "Life" THEN "life" ELSE name

Allowed(name) == name \in allowedCategories

\* the loop that fills validCategories
ValidCategories(form) == SelectSeq([i \in 1..Len(form) |-> ToLower(form[i])], Allowed)

\* len(validCategories) > 3 in CreatePostHandler, > 2 in EditPostHandler
MaxCreateCategories == 3
MaxEditCategories == 2

\* GetUsernameByID (users is never written), the form and its validation
CreatePostGetUsernameByID(w) ==
    /\ pc[w] = "CreateGetUsernameByID"
    /\ \E dbErr \in BOOLEAN, blank \in BOOLEAN, form \in Forms :
         LET validCategories == ValidCategories(form) IN
         IF dbErr THEN Fail(w, Status("Internal Server Error"))
         ELSE IF blank
         THEN Reply(w, Status("/create-post?error=Title+and+content+cannot+be+empty"))
         ELSE IF Len(validCategories) = 0
         THEN Reply(w, Status("/create-post?error=Please+choose+valid+category"))
         ELSE IF Len(validCategories) > MaxCreateCategories
         THEN Reply(w, Status("/create-post?error=You+can+select+up+to+3+categories"))
         ELSE Goto(w, "CreatePost", [req[w] EXCEPT !.cats = validCategories])
    /\ UNCHANGED <<users, foreign_keys, categories, sqlite_sequence,
                   sessions, Sessions, posts, post_categories,
                   post_votes, comments, comment_votes, now, nextToken, nreq, everVoted,
                   lastWrite, deletedPosts, ended>>

CreatePostCreatePost(w) ==
    /\ pc[w] = "CreatePost"
    /\ \E dbErr \in BOOLEAN :
         LET postID == LastPostID(posts, deletedPosts) + 1 IN
         IF dbErr \/ (ForeignKeys /\ ~UserExists(req[w].userID))
         THEN Fail(w, Status("/create-post?error=Server+error")) /\ UNCHANGED posts
         ELSE /\ Goto(w, "CreateAddPostCategory", [req[w] EXCEPT !.target = postID])
              /\ posts' = CreatePost(posts, postID, req[w].userID)
    /\ UNCHANGED <<users, foreign_keys, categories, sqlite_sequence,
                   sessions, Sessions, post_categories,
                   post_votes, comments, comment_votes, now, nextToken, nreq, everVoted,
                   lastWrite, deletedPosts, ended>>

\* one turn of the loop: GetCategoryIDByName (categories is never written), then
\* AddPostCategory
CreatePostAddPostCategory(w) ==
    /\ pc[w] = "CreateAddPostCategory"
    /\ \E lookupErr \in BOOLEAN, insertErr \in BOOLEAN :
         LET catID == GetCategoryIDByName(categories, Head(req[w].cats))
             rest == Tail(req[w].cats) IN
         IF \/ lookupErr \/ catID = 0 \/ insertErr
            \/ ~PostCategoryConstraints(post_categories, req[w].target, catID)
         THEN Fail(w, Status("/create-post?error=Server+error")) /\ UNCHANGED post_categories
         ELSE /\ post_categories' = AddPostCategory(post_categories, req[w].target, catID)
              /\ IF rest = <<>> THEN Reply(w, Status("/post?post_id="))
                 ELSE Goto(w, "CreateAddPostCategory", [req[w] EXCEPT !.cats = rest])
    /\ UNCHANGED <<users, foreign_keys, categories, sqlite_sequence,
                   sessions, Sessions, posts, post_votes,
                   comments, comment_votes, now, nextToken, nreq, everVoted, lastWrite,
                   deletedPosts, ended>>

CreatePostHandler(w) == \E c \in Cookies : Accept(w, "CreatePostHandler", c, 0)

EditPostGetUsernameByID(w) ==
    /\ pc[w] = "EditGetUsernameByID"
    /\ \E dbErr \in BOOLEAN :
         IF dbErr THEN Fail(w, Status("Internal Server Error"))
         ELSE Goto(w, "EditGetPostOwnerID", req[w])
    /\ UNCHANGED <<users, foreign_keys, categories, sqlite_sequence,
                   sessions, Sessions, posts, post_categories,
                   post_votes, comments, comment_votes, now, nextToken, nreq, everVoted,
                   lastWrite, deletedPosts, ended>>

NotOwnerUnlessAdmin(userID, role, ownerID) == ownerID # userID /\ role # "admin"

\* ownerID != userID: the role that IsAuthenticated returned is not consulted
NotOwner(userID, role, ownerID) == ownerID # userID

\* GetPostOwnerID, the ownership test, the form and its validation
EditPostGetPostOwnerID(w) ==
    /\ pc[w] = "EditGetPostOwnerID"
    /\ \E dbErr \in BOOLEAN, blank \in BOOLEAN, form \in Forms :
         LET ownerID == GetPostOwnerID(posts, req[w].target)
             validCategories == ValidCategories(form) IN
         IF ~dbErr /\ ownerID = 0 THEN Reply(w, Status("Not Found"))
         ELSE IF dbErr THEN Fail(w, Status("Internal Server Error"))
         ELSE IF NotOwner(req[w].userID, req[w].role, ownerID)
         THEN Reply(w, Status("Forbidden"))
         ELSE IF blank THEN Reply(w, Status("Bad Request"))
         ELSE IF Len(validCategories) = 0 THEN Reply(w, Status("Bad Request"))
         ELSE IF Len(validCategories) > MaxEditCategories THEN Reply(w, Status("Bad Request"))
         ELSE Goto(w, "UpdatePost", [req[w] EXCEPT !.cats = validCategories])
    /\ UNCHANGED <<users, foreign_keys, categories, sqlite_sequence,
                   sessions, Sessions, posts, post_categories,
                   post_votes, comments, comment_votes, now, nextToken, nreq, everVoted,
                   lastWrite, deletedPosts, ended>>

EditPostUpdatePost(w) ==
    /\ pc[w] = "UpdatePost"
    /\ \E dbErr \in BOOLEAN :
         IF dbErr THEN Fail(w, Status("Internal Server Error")) /\ UNCHANGED posts
         ELSE /\ Goto(w, "EditDeletePostCategories", req[w])
              /\ posts' = UpdatePost(posts, req[w].target)
    /\ UNCHANGED <<users, foreign_keys, categories, sqlite_sequence,
                   sessions, Sessions, post_categories,
                   post_votes, comments, comment_votes, now, nextToken, nreq, everVoted,
                   lastWrite, deletedPosts, ended>>

EditPostDeleteCategories(w) ==
    /\ pc[w] = "EditDeletePostCategories"
    /\ \E dbErr \in BOOLEAN :
         IF dbErr THEN Fail(w, Status("Internal Server Error")) /\ UNCHANGED post_categories
         ELSE /\ Goto(w, "EditAddPostCategory", req[w])
              /\ post_categories' = DeletePostCategories(post_categories, req[w].target)
    /\ UNCHANGED <<users, foreign_keys, categories, sqlite_sequence,
                   sessions, Sessions, posts, post_votes,
                   comments, comment_votes, now, nextToken, nreq, everVoted, lastWrite,
                   deletedPosts, ended>>

\* one turn of the loop: GetCategoryIDByName, whose sql.ErrNoRows is a 400, then
\* AddPostCategory
EditPostAddPostCategory(w) ==
    /\ pc[w] = "EditAddPostCategory"
    /\ \E lookupErr \in BOOLEAN, insertErr \in BOOLEAN :
         LET catID == GetCategoryIDByName(categories, Head(req[w].cats))
             rest == Tail(req[w].cats) IN
         IF ~lookupErr /\ catID = 0
         THEN Reply(w, Status("Bad Request")) /\ UNCHANGED post_categories
         ELSE IF \/ lookupErr \/ insertErr
                 \/ ~PostCategoryConstraints(post_categories, req[w].target, catID)
         THEN Fail(w, Status("Internal Server Error")) /\ UNCHANGED post_categories
         ELSE /\ post_categories' = AddPostCategory(post_categories, req[w].target, catID)
              /\ IF rest = <<>> THEN Reply(w, Status("/?filter=my"))
                 ELSE Goto(w, "EditAddPostCategory", [req[w] EXCEPT !.cats = rest])
    /\ UNCHANGED <<users, foreign_keys, categories, sqlite_sequence,
                   sessions, Sessions, posts, post_votes,
                   comments, comment_votes, now, nextToken, nreq, everVoted, lastWrite,
                   deletedPosts, ended>>

EditPostHandler(w) ==
    \E c \in Cookies, p \in PostIDs \cup {x.id : x \in posts} :
        Accept(w, "EditPostHandler", c, p)

\* ------------------------------------------------------------- CommentHandler
\* len(trimmedContent) < 3 and > 500
MinCommentLen == 3
MaxCommentLen == 500

\* r.FormValue("content"): empty, blank, too short, right (with a leading blank), too long
Contents ==
    {<<>>, <<" ">>, <<"o", "k">>, <<" ", "a", "b", "c">>,
     [i \in 1..(MaxCommentLen + 1) |-> "x"]}

RECURSIVE TrimLeft(_)
TrimLeft(s) == IF s # <<>> /\ Head(s) = " " THEN TrimLeft(Tail(s)) ELSE s

RECURSIVE TrimRight(_)
TrimRight(s) ==
    IF s # <<>> /\ s[Len(s)] = " " THEN TrimRight(SubSeq(s, 1, Len(s) - 1)) ELSE s

\* strings.TrimSpace
TrimSpace(s) == TrimRight(TrimLeft(s))

CommentForeignKeysOff(userID, postID) == TRUE

\* FOREIGN KEY(post_id) REFERENCES posts(id), FOREIGN KEY(user_id) REFERENCES users(id)
CommentForeignKeys(userID, postID) ==
    ~ForeignKeys \/ (UserExists(userID) /\ PostExists(postID))

\* INSERT INTO comments (post_id, user_id, ...) VALUES (?, ?, ...), then LastInsertId
CreateComment(tbl, commentID, postID, userID) ==
    tbl \cup {[id |-> commentID, post_id |-> postID, user_id |-> userID]}

\* the method test, the form and its validation, then CreateComment
CommentCreateComment(w) ==
    /\ pc[w] = "CreateComment"
    /\ \E isPost \in BOOLEAN, content \in Contents, dbErr \in BOOLEAN :
         LET trimmedContent == TrimSpace(content)
             commentID == sqlite_sequence.comments + 1 IN
         IF ~isPost
         THEN Reply(w, Status("Method not allowed.")) /\ UNCHANGED <<comments, sqlite_sequence>>
         ELSE IF content = <<>>
         THEN /\ Reply(w, Status("Post ID and content are required."))
              /\ UNCHANGED <<comments, sqlite_sequence>>
         ELSE IF trimmedContent = <<>>
         THEN /\ Reply(w, Status("Comment content cannot be empty or contain only whitespace."))
              /\ UNCHANGED <<comments, sqlite_sequence>>
         ELSE IF Len(trimmedContent) < MinCommentLen
         THEN /\ Reply(w, Status("Comment must be at least 3 characters long."))
              /\ UNCHANGED <<comments, sqlite_sequence>>
         ELSE IF Len(trimmedContent) > MaxCommentLen
         THEN /\ Reply(w, Status("Comment cannot be longer than 500 characters."))
              /\ UNCHANGED <<comments, sqlite_sequence>>
         ELSE IF dbErr \/ ~CommentForeignKeys(req[w].userID, req[w].target)
         THEN Fail(w, Status("Server error.")) /\ UNCHANGED <<comments, sqlite_sequence>>
         ELSE /\ Goto(w, "CommentGetUsernameByID", req[w])
              /\ comments' = CreateComment(comments, commentID, req[w].target, req[w].userID)
              /\ sqlite_sequence' = [sqlite_sequence EXCEPT !.comments = commentID]
    /\ UNCHANGED <<users, foreign_keys, categories, sessions, Sessions, posts, post_categories,
                   post_votes, comment_votes, now, nextToken, nreq, everVoted, lastWrite,
                   deletedPosts, ended>>

\* GetUsernameByID (users is not written by these requests), then the JSON response
CommentGetUsernameByID(w) ==
    /\ pc[w] = "CommentGetUsernameByID"
    /\ \E dbErr \in BOOLEAN :
         IF dbErr THEN Fail(w, Status("Server error."))
         ELSE Reply(w, Status("success"))
    /\ UNCHANGED <<users, foreign_keys, categories, sqlite_sequence, sessions, Sessions, posts,
                   post_categories, post_votes, comments, comment_votes, now, nextToken, nreq,
                   everVoted, lastWrite, deletedPosts, ended>>

CommentHandler(w) == \E c \in Cookies, p \in PostIDs : Accept(w, "CommentHandler", c, p)

\* --------------------------------------- RegisterHandler, UpdateProfileHandler
\* r.FormValue("email"): missing, malformed, the e-mail of the second user, two new ones
FormEmails == {"", "eve.forum.io", "bob@forum.io", "eve@forum.io", "eva@forum.io"}

\* emailRegex.MatchString
EmailRegexMatches(email) == email \in {"bob@forum.io", "eve@forum.io", "eva@forum.io"}

\* r.FormValue("username"): missing, a new name with a leading blank, the same name with
\* a capital, the name of the second user with a capital
FormUsernames ==
    {<<>>, <<" ", "e", "v", "e">>, <<"E", "v", "e">>, <<"B", "o", "b">>}

\* r.FormValue("display_name")
FormDisplayNames == {<<>>, <<"E", " ">>}

ToLowerRune(c) == IF c = "E" THEN "e" ELSE IF c = "B" THEN "b" ELSE c

\* strings.ToLower on a username
ToLowerUsername(s) == [i \in 1..Len(s) |-> ToLowerRune(s[i])]

\* SQL LOWER(username)
LOWER(s) == [i \in 1..Len(s) |-> ToLowerRune(s[i])]

\* SELECT email FROM users WHERE email = ?
EmailExists(tbl, email) == \E u \in tbl : u.email = email

\* SELECT EXISTS(SELECT 1 FROM users WHERE LOWER(username) = ?), the argument lower-cased
UsernameExists(tbl, username) == \E u \in tbl : LOWER(u.username) = ToLowerUsername(username)

\* email TEXT NOT NULL UNIQUE, for the row of user userID
EmailUnique(tbl, userID, email) == \A u \in tbl : u.id # userID => u.email # email

\* username TEXT NOT NULL UNIQUE, for the row of user userID: the comparison is exact
UsernameUnique(tbl, userID, username) ==
    \A u \in tbl : u.id # userID => u.username # username

RegisterUserAsAdmin(tbl, userID, email, username) ==
    tbl \cup {[id |-> userID, email |-> email, username |-> username, role |-> "admin",
               display_name |-> <<>>]}

\* INSERT INTO users (email, username, password, role) VALUES (?, ?, ?, 'user')
RegisterUser(tbl, userID, email, username) ==
    tbl \cup {[id |-> userID, email |-> email, username |-> username, role |-> "user",
               display_name |-> <<>>]}

\* SELECT username FROM users WHERE id = ?  (<<>> stands for sql.ErrNoRows)
GetUsernameByID(tbl, userID) ==
    IF \E u \in tbl : u.id = userID THEN (CHOOSE u \in tbl : u.id = userID).username
    ELSE <<>>

\* SELECT display_name FROM users WHERE id = ?
GetDisplayName(tbl, userID) ==
    IF \E u \in tbl : u.id = userID THEN (CHOOSE u \in tbl : u.id = userID).display_name
    ELSE <<>>

\* UPDATE users SET username = ?, display_name = ? WHERE id = ?
UpdateUserProfile(tbl, userID, username, displayName) ==
    {IF u.id = userID THEN [u EXCEPT !.username = username, !.display_name = displayName]
     ELSE u : u \in tbl}

\* the method test, the form and its validation, then EmailExists
RegisterEmailExists(w) ==
    /\ pc[w] = "EmailExists"
    /\ \E isPost \in BOOLEAN, formEmail \in FormEmails, formUsername \in FormUsernames,
          noPassword \in BOOLEAN, dbErr \in BOOLEAN :
         LET username == TrimSpace(formUsername) IN
         IF ~isPost THEN Reply(w, Status("register.html"))
         ELSE IF formEmail = "" \/ username = <<>> \/ noPassword
         THEN Reply(w, Status("All fields are required."))
         ELSE IF ~EmailRegexMatches(formEmail) THEN Reply(w, Status("Invalid email format."))
         ELSE IF dbErr THEN Fail(w, Status("Internal Server Error"))
         ELSE IF EmailExists(users, formEmail) THEN Reply(w, Status("Email already taken."))
         ELSE Goto(w, "UsernameExists",
                   [req[w] EXCEPT !.email = formEmail, !.username = username])
    /\ UNCHANGED <<users, foreign_keys, categories, sqlite_sequence, sessions, Sessions, posts,
                   post_categories, post_votes, comments, comment_votes, now, nextToken, nreq,
                   everVoted, lastWrite, deletedPosts, ended>>

RegisterUsernameExists(w) ==
    /\ pc[w] = "UsernameExists"
    /\ \E dbErr \in BOOLEAN :
         IF dbErr THEN Fail(w, Status("Internal Server Error"))
         ELSE IF UsernameExists(users, req[w].username)
         THEN Reply(w, Status("Username already taken."))
         ELSE Goto(w, "RegisterUser", req[w])
    /\ UNCHANGED <<users, foreign_keys, categories, sqlite_sequence, sessions, Sessions, posts,
                   post_categories, post_votes, comments, comment_votes, now, nextToken, nreq,
                   everVoted, lastWrite, deletedPosts, ended>>

\* bcrypt.GenerateFromPassword, then RegisterUser
RegisterRegisterUser(w) ==
    /\ pc[w] = "RegisterUser"
    /\ \E hashErr \in BOOLEAN, dbErr \in BOOLEAN :
         LET userID == sqlite_sequence.users + 1 IN
         IF \/ hashErr \/ dbErr
            \/ ~EmailUnique(users, userID, req[w].email)
            \/ ~UsernameUnique(users, userID, req[w].username)
         THEN Fail(w, Status("Internal Server Error")) /\ UNCHANGED <<users, sqlite_sequence>>
         ELSE /\ users' = RegisterUser(users, userID, req[w].email, req[w].username)
              /\ sqlite_sequence' = [sqlite_sequence EXCEPT !.users = userID]
              /\ Reply(w, Status("Registration successful, please login."))
    /\ UNCHANGED <<foreign_keys, categories, sessions, Sessions, posts, post_categories,
                   post_votes, comments, comment_votes, now, nextToken, nreq, everVoted,
                   lastWrite, deletedPosts, ended>>

RegisterHandler(w) == \E c \in Cookies : Accept(w, "RegisterHandler", c, 0)

\* the method test, the form, GetUsernameByID and the choice of the new username
UpdateProfileGetUsernameByID(w) ==
    /\ pc[w] = "ProfileGetUsernameByID"
    /\ \E isPost \in BOOLEAN, formUsername \in FormUsernames,
          formDisplayName \in FormDisplayNames, dbErr \in BOOLEAN :
         LET newUsername == TrimSpace(formUsername)
             newDisplayName == TrimSpace(formDisplayName)
             currentUsername == GetUsernameByID(users, req[w].userID)
             r == [req[w] EXCEPT !.displayName = newDisplayName] IN
         IF ~isPost THEN Reply(w, Status("Method Not Allowed"))
         ELSE IF dbErr \/ ~UserExists(req[w].userID)
         THEN Fail(w, Status("Internal Server Error"))
         ELSE IF newUsername = <<>>
         THEN Goto(w, "GetDisplayName", [r EXCEPT !.username = currentUsername])
         ELSE IF newUsername # currentUsername
         THEN Goto(w, "ProfileUsernameExists", [r EXCEPT !.username = newUsername])
         ELSE Goto(w, "GetDisplayName", [r EXCEPT !.username = newUsername])
    /\ UNCHANGED <<users, foreign_keys, categories, sqlite_sequence, sessions, Sessions, posts,
                   post_categories, post_votes, comments, comment_votes, now, nextToken, nreq,
                   everVoted, lastWrite, deletedPosts, ended>>

UpdateProfileUsernameExists(w) ==
    /\ pc[w] = "ProfileUsernameExists"
    /\ \E dbErr \in BOOLEAN :
         IF dbErr THEN Fail(w, Status("Internal Server Error"))
         ELSE IF UsernameExists(users, req[w].username) THEN Reply(w, Status("Bad Request"))
         ELSE Goto(w, "GetDisplayName", req[w])
    /\ UNCHANGED <<users, foreign_keys, categories, sqlite_sequence, sessions, Sessions, posts,
                   post_categories, post_votes, comments, comment_votes, now, nextToken, nreq,
                   everVoted, lastWrite, deletedPosts, ended>>

\* GetDisplayName, whose error is dropped: the display name is then kept as empty
UpdateProfileGetDisplayName(w) ==
    /\ pc[w] = "GetDisplayName"
    /\ \E dbErr \in BOOLEAN :
         LET currentDisplayName == IF dbErr THEN <<>>
                                   ELSE GetDisplayName(users, req[w].userID) IN
         Goto(w, "UpdateUserProfile",
              IF req[w].displayName = <<>>
              THEN [req[w] EXCEPT !.displayName = currentDisplayName]
              ELSE req[w])
    /\ UNCHANGED <<users, foreign_keys, categories, sqlite_sequence, sessions, Sessions, posts,
                   post_categories, post_votes, comments, comment_votes, now, nextToken, nreq,
                   everVoted, lastWrite, deletedPosts, ended>>

UpdateProfileUpdateUserProfile(w) ==
    /\ pc[w] = "UpdateUserProfile"
    /\ \E dbErr \in BOOLEAN :
         IF dbErr \/ ~UsernameUnique(users, req[w].userID, req[w].username)
         THEN Fail(w, Status("Internal Server Error")) /\ UNCHANGED users
         ELSE /\ users' = UpdateUserProfile(users, req[w].userID, req[w].username,
                                            req[w].displayName)
              /\ Reply(w, Status("Redirect"))
    /\ UNCHANGED <<foreign_keys, categories, sqlite_sequence, sessions, Sessions, posts,
                   post_categories, post_votes, comments, comment_votes, now, nextToken, nreq,
                   everVoted, lastWrite, deletedPosts, ended>>

UpdateProfileHandler(w) == \E c \in Cookies : Accept(w, "UpdateProfileHandler", c, 0)

\* ---------------------------------------------------------------- PostHandler
\* GetPostByID: sql.ErrNoRows is a 400; any other error is reported only after the
\* vote statistics have been read
PostGetPostByID(w) ==
    /\ pc[w] = "GetPostByID"
    /\ \E dbErr \in BOOLEAN :
         IF dbErr THEN Goto(w, "GetVoteStats", [req[w] EXCEPT !.err = TRUE])
         ELSE IF ~PostExists(req[w].target) THEN Reply(w, Status("Bad Request"))
         ELSE Goto(w, "GetVoteStats", req[w])
    /\ UNCHANGED <<users, foreign_keys, categories, sqlite_sequence,
                   sessions, Sessions, posts, post_categories, post_votes, comments,
                   comment_votes, now, nextToken, nreq, everVoted, lastWrite, deletedPosts, ended>>

\* GetPostVoteStats with its error dropped (zero counts), then the test of GetPostByID's
\* error and the read of the comments
PostGetVoteStats(w) ==
    /\ pc[w] = "GetVoteStats"
    /\ req[w].kind = "PostHandler"
    /\ \E dbErr \in BOOLEAN, commentsErr \in BOOLEAN :
         LET st == GetPostVoteStats(post_votes, req[w].userID, req[w].target) IN
         IF req[w].err \/ commentsErr THEN Reply(w, Status("Internal Server Error"))
         ELSE IF dbErr THEN Reply(w, [NoResp EXCEPT !.status = "success"])
         ELSE Reply(w, StatsResponse(st))
    /\ UNCHANGED <<users, foreign_keys, categories, sqlite_sequence,
                   sessions, Sessions, posts, post_categories, post_votes, comments,
                   comment_votes, now, nextToken, nreq, everVoted, lastWrite, deletedPosts, ended>>

PostHandler(w) == \E c \in Cookies, p \in PostIDs : Accept(w, "PostHandler", c, p)

\* ------------------------------------------------------------------- the store
Pairs == ({"post"} \X PostIDs \X UserIDs) \cup ({"comment"} \X CommentIDs \X UserIDs)

NoWrite == [kind |-> "none", prior |-> "NoVote", fresh |-> TRUE]

\* the e-mails and usernames of the users registered at the start
InitialEmails == <<"ann@forum.io", "bob@forum.io", "cat@forum.io", "dan@forum.io">>

InitialUsernames ==
    <<(<<"a", "n", "n">>), (<<"b", "o", "b">>), (<<"c", "a", "t">>), (<<"d", "a", "n">>)>>

\* column role of users: user 1 is the administrator, the others keep the default
RoleOf(userID) == IF userID = 1 THEN "admin" ELSE "user"

\* The users are registered and logged in (user u holds token u, and the mirror knows
\* it); the last registered user has written post 1 and user 1 has commented on it;
\* user 1 has liked the post and the comment, the author has disliked the post.
InitStore(commentRows, commentVoteRows) ==
    /\ users = {[id |-> u, email |-> InitialEmails[u], username |-> InitialUsernames[u],
                  role |-> RoleOf(u), display_name |-> <<>>] : u \in UserIDs}
    /\ sessions = {[session_id |-> u, user_id |-> u, role |-> RoleOf(u), expiry |-> SessionTTL]
                     : u \in UserIDs}
    /\ Sessions = [t \in Tokens |->
                     IF t \in UserIDs
                     THEN [UserID |-> t, Role |-> RoleOf(t), Expiry |-> SessionTTL]
                     ELSE NoSessionData]
    /\ posts = {[id |-> 1, user_id |-> NumUsers]}
    /\ categories = {[id |-> i, name |-> SeedCategories[i]] : i \in 1..Len(SeedCategories)}
    /\ post_categories = {[post_id |-> 1, category_id |-> 1]}
    /\ post_votes = {[user_id |-> 1, post_id |-> 1, vote |-> 1],
                     [user_id |-> NumUsers, post_id |-> 1, vote |-> -1]}
    /\ comments = commentRows
    /\ sqlite_sequence = [comments |-> Cardinality(commentRows), users |-> NumUsers]
    /\ comment_votes = commentVoteRows
    /\ now = 0
    /\ nextToken = NumUsers
    /\ pc = [w \in Workers |-> "idle"]
    /\ req = [w \in Workers |-> IdleReq]
    /\ out = NoResp
    /\ nreq = 0
    /\ everVoted = {<<"post", 1, 1>>, <<"post", 1, NumUsers>>, <<"comment", 1, 1>>}
    /\ lastWrite = [k \in Pairs |->
                      IF k \in {<<"post", 1, 1>>, <<"comment", 1, 1>>}
                      THEN [kind |-> "like", prior |-> "NoVote", fresh |-> TRUE]
                      ELSE IF k = <<"post", 1, NumUsers>>
                      THEN [kind |-> "dislike", prior |-> "NoVote", fresh |-> TRUE]
                      ELSE NoWrite]
    /\ deletedPosts = {}
    /\ ended = {}

\* the store with the one comment, and its like
InitTables ==
    InitStore({[id |-> 1, post_id |-> 1, user_id |-> 1]},
              {[user_id |-> 1, comment_id |-> 1, vote |-> 1]})

\* the store after the author of the post has commented on it too, user 1 has disliked
\* that comment and its writer has liked it
InitTwoComments ==
    /\ InitStore({[id |-> 1, post_id |-> 1, user_id |-> 1],
                  [id |-> 2, post_id |-> 1, user_id |-> NumUsers]},
                 {[user_id |-> 1, comment_id |-> 1, vote |-> 1],
                  [user_id |-> 1, comment_id |-> 2, vote |-> -1],
                  [user_id |-> NumUsers, comment_id |-> 2, vote |-> 1]})
    /\ foreign_keys = TRUE

\* sql.Open("sqlite3", "./forum.db?_foreign_keys=on") and PRAGMA foreign_keys = ON
Init == InitTables /\ foreign_keys = TRUE

\* the same tables in a store that neither enforces nor cascades foreign keys
InitNoForeignKeys == InitTables /\ foreign_keys = FALSE

NextVote ==
    \E w \in Workers :
        \/ LikeHandler(w)
        \/ DislikeHandler(w)
        \/ CommentLikeHandler(w)
        \/ CommentDislikeHandler(w)
        \/ IsAuthenticatedStore(w)
        \/ VoteGetUserVote(w)
        \/ VoteSetVote(w)
        \/ VoteGetVoteStats(w)

SpecVote == Init /\ [][NextVote]_vars

\* The delete specification: deletes of the post and of the comment.
NextDelete ==
    \E w \in Workers :
        \/ DeletePostHandler(w)
        \/ DeleteCommentHandler(w)
        \/ IsAuthenticatedStore(w)
        \/ DeletePostGetPostOwnerID(w)
        \/ DeletePostDeleteCategories(w)
        \/ DeletePostDeleteComments(w)
        \/ DeletePostDeleteVotes(w)
        \/ DeletePostDeletePost(w)
        \/ DeleteCommentGetCommentOwnerID(w)
        \/ DeleteCommentDeleteVotes(w)
        \/ DeleteCommentDeleteComment(w)

SpecDelete == Init /\ [][NextDelete]_vars

\* The same requests against a store with two comments.
SpecTwoComments == InitTwoComments /\ [][NextDelete]_vars

\* The same requests against a store without foreign keys.
SpecNoForeignKeys == InitNoForeignKeys /\ [][NextDelete]_vars

\* The post specification: creations and edits of posts.
NextPost ==
    \E w \in Workers :
        \/ CreatePostHandler(w)
        \/ EditPostHandler(w)
        \/ IsAuthenticatedStore(w)
        \/ CreatePostGetUsernameByID(w)
        \/ CreatePostCreatePost(w)
        \/ CreatePostAddPostCategory(w)
        \/ EditPostGetUsernameByID(w)
        \/ EditPostGetPostOwnerID(w)
        \/ EditPostUpdatePost(w)
        \/ EditPostDeleteCategories(w)
        \/ EditPostAddPostCategory(w)

SpecPost == Init /\ [][NextPost]_vars

\* The cascade specification: post votes, reads of the post page and deletes of the post.
NextCascade ==
    \E w \in Workers :
        \/ LikeHandler(w)
        \/ DislikeHandler(w)
        \/ DeletePostHandler(w)
        \/ PostHandler(w)
        \/ IsAuthenticatedStore(w)
        \/ VoteGetUserVote(w)
        \/ VoteSetVote(w)
        \/ VoteGetVoteStats(w)
        \/ DeletePostGetPostOwnerID(w)
        \/ DeletePostDeleteCategories(w)
        \/ DeletePostDeleteComments(w)
        \/ DeletePostDeleteVotes(w)
        \/ DeletePostDeletePost(w)
        \/ PostGetPostByID(w)
        \/ PostGetVoteStats(w)

SpecCascade == Init /\ [][NextCascade]_vars

\* The interleaving specification: post votes, comments and deletes of the post.
NextInterleave ==
    \E w \in Workers :
        \/ LikeHandler(w)
        \/ DislikeHandler(w)
        \/ CommentHandler(w)
        \/ DeletePostHandler(w)
        \/ IsAuthenticatedStore(w)
        \/ VoteGetUserVote(w)
        \/ VoteSetVote(w)
        \/ VoteGetVoteStats(w)
        \/ CommentCreateComment(w)
        \/ CommentGetUsernameByID(w)
        \/ DeletePostGetPostOwnerID(w)
        \/ DeletePostDeleteCategories(w)
        \/ DeletePostDeleteComments(w)
        \/ DeletePostDeleteVotes(w)
        \/ DeletePostDeletePost(w)

SpecInterleave == Init /\ [][NextInterleave]_vars

\* The account specification: registrations, updates of the profile and logins.
NextAccount ==
    \E w \in Workers :
        \/ RegisterHandler(w)
        \/ UpdateProfileHandler(w)
        \/ LoginHandler(w)
        \/ IsAuthenticatedStore(w)
        \/ RegisterEmailExists(w)
        \/ RegisterUsernameExists(w)
        \/ RegisterRegisterUser(w)
        \/ UpdateProfileGetUsernameByID(w)
        \/ UpdateProfileUsernameExists(w)
        \/ UpdateProfileGetDisplayName(w)
        \/ UpdateProfileUpdateUserProfile(w)
        \/ LoginGetUserByEmail(w)
        \/ LoginDeleteUserSessions(w)
        \/ LoginCreateSession(w)

SpecAccount == Init /\ [][NextAccount]_vars

\* The session specification: logins, with and without a cookie, while time passes.
NextSession ==
    \/ Tick
    \/ \E w \in Workers :
        \/ LoginHandler(w)
        \/ IsAuthenticatedDeleteExpired(w)
        \/ IsAuthenticatedStore(w)
        \/ LoginGetUserByEmail(w)
        \/ LoginDeleteUserSessions(w)
        \/ LoginCreateSession(w)
        \/ LogoutHandler(w)
        \/ LogoutDeleteSession(w)
        \/ LogoutSessionsDelete(w)

SpecSession == Init /\ [][NextSession]_vars

\* The expiry specification: reads of the post page, with and without a cookie, while
\* time passes and sessions expire.
NextExpiry ==
    \/ Tick
    \/ \E w \in Workers :
        \/ PostHandler(w)
        \/ IsAuthenticatedDeleteExpired(w)
        \/ IsAuthenticatedStore(w)
        \/ PostGetPostByID(w)
        \/ PostGetVoteStats(w)

SpecExpiry == Init /\ [][NextExpiry]_vars

\* The mirror specification: logins and logouts, with and without a cookie.
NextMirror ==
    \E w \in Workers :
        \/ LoginHandler(w)
        \/ IsAuthenticatedStore(w)
        \/ LoginGetUserByEmail(w)
        \/ LoginDeleteUserSessions(w)
        \/ LoginCreateSession(w)
        \/ LogoutHandler(w)
        \/ LogoutDeleteSession(w)
        \/ LogoutSessionsDelete(w)

SpecMirror == Init /\ [][NextMirror]_vars

\* ================================================================== claims
ActionOf(kind) == IF Polarity(kind) = 1 THEN "like" ELSE "dislike"

\* the transition table of the vote state machine
TransitionTable ==
    [NoVote   |-> [like |-> "Liked",  dislike |-> "Disliked"],
     Liked    |-> [like |-> "NoVote", dislike |-> "Disliked"],
     Disliked |-> [like |-> "Liked",  dislike |-> "NoVote"]]

\* the worker w executes its write and the write succeeds
WriteStep(w) == pc[w] = "SetVote" /\ pc'[w] = "GetVoteStats"

\* the votes on the target of request r, as <<user, vote>>
TargetVotes(pv, cv, r) ==
    IF r.kind \in PostVoteKinds
    THEN {<<x.user_id, x.vote>> : x \in {y \in pv : y.post_id = r.target}}
    ELSE {<<x.user_id, x.vote>> : x \in {y \in cv : y.comment_id = r.target}}

\* C1: a like or dislike request on a post or a comment whose read is not followed by
\* another write of the same (user, target) pair before its own write moves the pair
\* as the transition table says.
C1_TransitionTable ==
    [][\A w \in Workers :
         (WriteStep(w) /\ req[w].fresh) =>
             StateOf(post_votes', comment_votes', req[w]) =
                 TransitionTable[StateOf(post_votes, comment_votes, req[w])][ActionOf(req[w].kind)]]_vars

\* a dislike has flipped a liked comment
C1_Witness ==
    \E w \in Workers :
        /\ pc[w] = "GetVoteStats"
        /\ req[w].kind = "CommentDislikeHandler"
        /\ req[w].voteExists /\ req[w].currentVote = 1
        /\ CommentVoteState(comment_votes, req[w].userID, req[w].target) = "Disliked"

\* C2: in every reachable state each vote table holds at most one row per
\* (user, target) pair, and every vote is -1 or +1.
C2_OneRowPerPair ==
    /\ \A r \in post_votes :
         /\ r.vote \in {-1, 1}
         /\ Cardinality({x \in post_votes : x.user_id = r.user_id /\ x.post_id = r.post_id}) = 1
    /\ \A r \in comment_votes :
         /\ r.vote \in {-1, 1}
         /\ Cardinality({x \in comment_votes :
                           x.user_id = r.user_id /\ x.comment_id = r.comment_id}) = 1

\* two requests of one user on one target have both read the vote before either wrote,
\* and both have then written an insert-or-update
C2_Witness ==
    \E w1 \in Workers, w2 \in Workers :
        /\ w1 # w2
        /\ pc[w1] = "GetVoteStats" /\ pc[w2] = "GetVoteStats"
        /\ req[w1].kind \in VoteKinds /\ req[w2].kind \in VoteKinds
        /\ PairOf(req[w1]) = PairOf(req[w2])
        /\ req[w1].currentVote = req[w2].currentVote
        /\ req[w1].voteExists /\ req[w2].voteExists
        /\ ~RemovesVote(req[w1].kind, req[w1].currentVote, req[w1].voteExists)
        /\ ~RemovesVote(req[w2].kind, req[w2].currentVote, req[w2].voteExists)

\* C3 as stated: a like that follows a like of the same pair, each of the two requests
\* uninterrupted between its read and its write and nothing written to the pair between
\* them, leaves the pair without a vote, whatever the vote before the first.
C3_ToggleOffAnyPrior ==
    [][\A w \in Workers :
         (/\ WriteStep(w) /\ req[w].fresh
          /\ ActionOf(req[w].kind) = "like"
          /\ lastWrite[PairOf(req[w])].kind = "like"
          /\ lastWrite[PairOf(req[w])].fresh) =>
             StateOf(post_votes', comment_votes', req[w]) = "NoVote"]_vars

\* C3 amended: a like that follows a like of the same pair, each of the two requests
\* uninterrupted between its read and its write and nothing written to the pair between
\* them, leaves the pair without a vote, provided the pair was not Liked before the
\* first like.
C3_ToggleOff ==
    [][\A w \in Workers :
         (/\ WriteStep(w) /\ req[w].fresh
          /\ ActionOf(req[w].kind) = "like"
          /\ lastWrite[PairOf(req[w])].kind = "like"
          /\ lastWrite[PairOf(req[w])].fresh
          /\ lastWrite[PairOf(req[w])].prior # "Liked") =>
             StateOf(post_votes', comment_votes', req[w]) = "NoVote"]_vars

\* a like has removed the like that the previous like of the pair had set
C3_Witness ==
    \E w \in Workers :
        /\ pc[w] = "GetVoteStats"
        /\ ActionOf(req[w].kind) = "like"
        /\ req[w].voteExists /\ req[w].currentVote = 1
        /\ lastWrite[PairOf(req[w])] = [kind |-> "like", prior |-> "Liked", fresh |-> TRUE]
        /\ StateOf(post_votes, comment_votes, req[w]) = "NoVote"

\* C4: a dislike that follows a like of the same pair, nothing written to the pair in
\* between, leaves exactly one row for the pair, with vote -1, whatever the vote before.
C4_LikeThenDislike ==
    [][\A w \in Workers :
         (/\ WriteStep(w) /\ req[w].fresh
          /\ ActionOf(req[w].kind) = "dislike"
          /\ lastWrite[PairOf(req[w])].kind = "like") =>
             {v \in TargetVotes(post_votes', comment_votes', req[w]) : v[1] = req[w].userID}
                 = {<<req[w].userID, -1>>}]_vars

\* a dislike has been written over the like that the previous request of the pair had set
C4_Witness ==
    \E w \in Workers :
        /\ pc[w] = "GetVoteStats"
        /\ ActionOf(req[w].kind) = "dislike"
        /\ lastWrite[PairOf(req[w])] = [kind |-> "dislike", prior |-> "Liked", fresh |-> TRUE]
        /\ <<req[w].userID, -1>> \in TargetVotes(post_votes, comment_votes, req[w])

\* C5: the write of a request that flips a vote (a dislike that read a like, a like that
\* read a dislike) never takes the pair's row away: the row is there after the write
\* whenever it was there before it.
C5_FlipKeepsRow ==
    [][\A w \in Workers :
         (/\ pc[w] = "SetVote" /\ pc'[w] # "SetVote"
          /\ req[w].voteExists
          /\ req[w].currentVote = -Polarity(req[w].kind)
          /\ StateOf(post_votes, comment_votes, req[w]) # "NoVote") =>
             StateOf(post_votes', comment_votes', req[w]) # "NoVote"]_vars

\* a dislike has flipped a liked post
C5_Witness ==
    \E w \in Workers :
        /\ pc[w] = "GetVoteStats"
        /\ req[w].kind = "DislikeHandler"
        /\ req[w].voteExists /\ req[w].currentVote = 1
        /\ PostVoteState(post_votes, req[w].userID, req[w].target) = "Disliked"

\* C6: the statistics a vote request returns count the +1 rows and the -1 rows the
\* target has at that moment; their sum is the target's row count and at most the number
\* of users who ever voted on it; the caller's vote is the caller's row, or 0.
C6_StatsLive ==
    [][\A w \in Workers :
         (/\ pc[w] = "GetVoteStats" /\ pc'[w] = "idle"
          /\ req[w].kind \in VoteKinds
          /\ out'.status = "success") =>
             LET votes == TargetVotes(post_votes, comment_votes, req[w])
                 mine == {v \in votes : v[1] = req[w].userID} IN
             /\ out'.likes = Cardinality({v \in votes : v[2] = 1})
             /\ out'.dislikes = Cardinality({v \in votes : v[2] = -1})
             /\ out'.likes + out'.dislikes = Cardinality(votes)
             /\ out'.likes + out'.dislikes <=
                    Cardinality({u \in UserIDs :
                                   <<TableOf(req[w].kind), req[w].target, u>> \in everVoted})
             /\ IF mine = {} THEN out'.user_vote = 0
                ELSE mine = {<<req[w].userID, out'.user_vote>>}]_vars

\* a vote request has returned statistics with a like and a dislike in them
C6_Witness == out.status = "success" /\ out.likes = 1 /\ out.dislikes = 1 /\ out.user_vote = 1

\* C7: statistics read for a post whose delete has reported success are not returned as
\* a success with counts.
C7_StatsOfDeletedPostNotFound ==
    [][\A w \in Workers :
         (/\ pc[w] = "GetVoteStats" /\ pc'[w] = "idle"
          /\ req[w].target \in deletedPosts) =>
             out'.status # "success"]_vars

\* C8: when a login returns its new token, no other token of the same user resolves.
C8_LoginInvalidatesOlderTokens ==
    [][\A w \in Workers :
         (pc[w] = "CreateSession" /\ pc'[w] = "idle" /\ out'.set_cookie # NoCookie) =>
             \A t \in Tokens \ {out'.set_cookie} :
                 ~(/\ Resolves(sessions', t, now)
                   /\ GetSessionData(sessions', t).user_id = req[w].userID)]_vars

\* C9: in every reachable state the session store holds at most one row per user.
C9_OneSessionPerUser ==
    \A u \in UserIDs : Cardinality({s \in sessions : s.user_id = u}) <= 1

\* C10: IsAuthenticated accepts a token only if its expiry is later than the current
\* time; a token whose expiry equals the current time is refused.
C10_ExpiredAtBoundary ==
    [][\A w \in Workers :
         (pc[w] = "idle" /\ pc'[w] = "SessionsStore") => req'[w].expiry > now]_vars

\* where a handler that serves visitors goes on when IsAuthenticated has refused
AnonymousLabels == {"GetUserByEmail", "GetPostByID"}

\* C11: when IsAuthenticated finds an expired session and DeleteExpiredSession succeeds,
\* the store holds no row for the token afterwards, a later resolution of the token takes
\* the not-found path, and no row of a token issued earlier ever comes back.
C11_ExpiredRowRemoved ==
    [][/\ \A w \in Workers :
            (/\ pc[w] = "DeleteExpiredSession"
             /\ pc'[w] \notin {"DeleteExpiredSession", "idle"}
             /\ ~req'[w].authErr) =>
                /\ GetSessionData(sessions', req[w].cookie) = NoRow
                /\ IsAuthenticatedBranch(sessions', req[w].cookie, now', FALSE) = "not found"
       /\ \A t \in 1..nextToken :
            GetSessionData(sessions, t) = NoRow => GetSessionData(sessions', t) = NoRow]_vars

\* an expired session has been found and deleted
C11_Witness ==
    \E w \in Workers :
        /\ pc[w] \in AnonymousLabels
        /\ req[w].branch = "expired" /\ ~req[w].authErr
        /\ GetSessionData(sessions, req[w].cookie) = NoRow

\* C12: a storage error during IsAuthenticated (GetSessionData failing, or
\* DeleteExpiredSession failing) gives the result (false, 0, ""): the handler goes on as
\* for a visitor who is not logged in, and the mirror is not written.
C12_StorageErrorUnauthenticated ==
    [][\A w \in Workers :
         (/\ pc[w] \in {"idle", "DeleteExpiredSession"}
          /\ pc'[w] # "idle"
          /\ req'[w].authErr /\ ~req[w].authErr) =>
             /\ pc'[w] \in AnonymousLabels
             /\ req'[w].userID = 0 /\ req'[w].role = ""
             /\ Sessions' = Sessions]_vars

\* one request whose lookup failed and one whose delete of the expired row failed
C12_Witness ==
    \E w1 \in Workers, w2 \in Workers :
        /\ pc[w1] \in AnonymousLabels /\ req[w1].authErr /\ req[w1].branch = "error"
        /\ pc[w2] \in AnonymousLabels /\ req[w2].authErr /\ req[w2].branch = "expired"

\* C13: the result of IsAuthenticated is decided by the sessions table and the clock
\* alone: a token is accepted exactly when the lookup does not fail and the table holds
\* an unexpired row for it, whatever the mirror holds; the identity returned is the row's.
C13_MirrorNotSourceOfTruth ==
    [][\A w \in Workers :
         (pc[w] = "idle" /\ pc'[w] # "idle" /\ req'[w].kind = "LoginHandler") =>
             /\ (pc'[w] = "SessionsStore") <=>
                    (~req'[w].authErr /\ Resolves(sessions, req'[w].cookie, now))
             /\ pc'[w] = "SessionsStore" =>
                    /\ req'[w].userID = GetSessionData(sessions, req'[w].cookie).user_id
                    /\ req'[w].role = GetSessionData(sessions, req'[w].cookie).role]_vars

\* a token that the mirror holds as live and the table no longer holds has been refused
C13_Witness ==
    \E w \in Workers :
        /\ pc[w] = "GetUserByEmail"
        /\ req[w].branch = "not found"
        /\ Sessions[req[w].cookie].UserID # 0
        /\ ~Expired(Sessions[req[w].cookie].Expiry, now)

\* C20: whatever made IsAuthenticated refuse a request (no cookie, unknown token, expired
\* token, failed lookup), the handler holds the same result: user id 0 and empty role.
C20_UnauthenticatedUniform ==
    \A w \in Workers :
        (/\ pc[w] \in {"DeleteExpiredSession"} \cup AnonymousLabels
         /\ req[w].branch \in {"no cookie", "not found", "expired", "error"}) =>
            /\ req[w].userID = 0
            /\ req[w].role = ""

\* two refused requests, one for an expired token and one for a failed lookup
C20_Witness ==
    \E w1 \in Workers, w2 \in Workers :
        /\ pc[w1] \in AnonymousLabels /\ req[w1].branch = "expired"
        /\ pc[w2] \in AnonymousLabels /\ req[w2].branch = "error"
        /\ req[w1].userID = req[w2].userID /\ req[w1].role = req[w2].role

\* C14: no reachable state has two workers about to touch the session mirror with one of
\* them outside SessionsMu.
C14_MirrorUnderLock == \A w \in Workers : ~Races(w)

\* C15: when a login returns its new token, the mirror holds an entry for that token with
\* the user's id and role and the expiry now + 24h.
C15_LoginWritesMirror ==
    [][\A w \in Workers :
         (pc[w] = "CreateSession" /\ pc'[w] = "idle" /\ out'.set_cookie # NoCookie) =>
             Sessions'[out'.set_cookie] =
                 [UserID |-> req[w].userID, Role |-> req[w].role,
                  Expiry |-> now + SessionTTL]]_vars

\* C16: when IsAuthenticated returns (true, userID, role), the mirror entry of the token
\* holds the user id, role and expiry of the row it has read.
C16_ResolveSyncsMirror ==
    [][\A w \in Workers :
         (pc[w] = "SessionsStore" /\ pc'[w] \notin {"SessionsStore", "crashed"}) =>
             Sessions'[req[w].cookie] =
                 [UserID |-> req[w].userID, Role |-> req[w].role,
                  Expiry |-> req[w].expiry]]_vars

\* C17: once a logout whose DELETE succeeded has answered, neither the sessions table nor
\* the mirror holds its token, and IsAuthenticated refuses the token.
C17_LogoutRemovesBoth ==
    \A t \in ended :
        (\A w \in Workers : pc[w] # "crashed" /\ ~(pc[w] = "SessionsDelete" /\ req[w].cookie = t))
            => /\ GetSessionData(sessions, t) = NoRow
               /\ Sessions[t] = NoSessionData
               /\ ~Resolves(sessions, t, now)

\* C18: a logout request that carries a cookie answers with the redirect and the cleared
\* cookie, whether DeleteSession succeeded or failed.
C18_LogoutClearsCookie ==
    [][\A w \in Workers :
         (req[w].kind = "LogoutHandler" /\ pc[w] # "idle" /\ pc'[w] = "idle") =>
             /\ out'.status = "Redirect"
             /\ out'.set_cookie = ClearedCookie]_vars

\* the only request so far, a logout with a cookie, has answered with the cleared cookie
\* although its DELETE failed (every row is still there)
C18_Witness ==
    /\ nreq = 1
    /\ \A w \in Workers : pc[w] = "idle"
    /\ out.status = "Redirect" /\ out.set_cookie = ClearedCookie
    /\ Cardinality(sessions) = NumUsers

\* C19: when IsAuthenticated finds the session of a token expired, the mirror holds no
\* entry for the token once IsAuthenticated has returned.
C19_ExpiredLeavesMirror ==
    [][\A w \in Workers :
         (pc[w] = "DeleteExpiredSession" /\ pc'[w] # "DeleteExpiredSession") =>
             Sessions'[req[w].cookie] = NoSessionData]_vars

\* the worker w leaves the storage call named from for another one
Leaves(w, from) == pc[w] = from /\ pc'[w] \notin {from, "idle"}

\* C21: a post delete goes through its storage deletions in the order category links,
\* comments, post votes, post row, and a comment delete through votes, comment row; a
\* request reaches a step only from the step before it, whose rows are then gone, and
\* the post row or a comment row is removed only by a request that is at its last step.
C21_CascadeOrder ==
    [][/\ \A w \in Workers :
            LET t == req[w].target IN
            /\ Leaves(w, "GetPostOwnerID") => pc'[w] = "DeletePostCategories"
            /\ Leaves(w, "DeletePostCategories") =>
                  /\ pc'[w] = "DeletePostComments"
                  /\ ~\E r \in post_categories' : r.post_id = t
            /\ Leaves(w, "DeletePostComments") =>
                  /\ pc'[w] = "DeletePostVotes"
                  /\ ~\E c \in comments' : c.post_id = t
            /\ Leaves(w, "DeletePostVotes") =>
                  /\ pc'[w] = "DeletePost"
                  /\ ~\E r \in post_votes' : r.post_id = t
            /\ ~Leaves(w, "DeletePost")
            /\ Leaves(w, "GetCommentOwnerID") => pc'[w] = "DeleteCommentVotes"
            /\ Leaves(w, "DeleteCommentVotes") =>
                  /\ pc'[w] = "DeleteComment"
                  /\ ~\E r \in comment_votes' : r.comment_id = t
            /\ ~Leaves(w, "DeleteComment")
       /\ \A p \in posts \ posts' :
            \E w \in Workers : pc[w] = "DeletePost" /\ req[w].target = p.id /\ pc'[w] = "idle"
       /\ \A c \in comments \ comments' :
            \E w \in Workers :
                /\ pc'[w] # pc[w]
                /\ \/ pc[w] = "DeleteComment" /\ req[w].target = c.id
                   \/ pc[w] \in {"DeletePostComments", "DeletePost"} /\ req[w].target = c.post_id
      ]_vars

\* a post delete has reached its last step: the category links, the comments and the
\* votes of the post are gone and the post row is still there
C21_Witness ==
    \E w \in Workers :
        /\ pc[w] = "DeletePost" /\ PostExists(req[w].target)
        /\ ~\E r \in post_categories : r.post_id = req[w].target
        /\ ~\E c \in comments : c.post_id = req[w].target
        /\ ~\E r \in post_votes : r.post_id = req[w].target

\* no table holds a row of the post: the post row, its category links, its comments,
\* its votes
PostGone(postID) ==
    /\ ~\E p \in posts : p.id = postID
    /\ ~\E r \in post_categories : r.post_id = postID
    /\ ~\E c \in comments : c.post_id = postID
    /\ ~\E r \in post_votes : r.post_id = postID

\* C22: once a delete of post P has reported success, the post row, the category links,
\* the comments and the post votes of P are gone, and stay gone.
C22_DeletePostRemovesAll == \A p \in deletedPosts : PostGone(p)

\* a delete of the post has just reported success and every table is without its rows
C22_Witness ==
    /\ out.status = "Post deleted successfully."
    /\ \E p \in deletedPosts : PostGone(p)
    /\ \A w \in Workers : pc[w] = "idle"

\* the tables a delete works on
content == <<posts, post_categories, post_votes, comments, comment_votes>>

\* the actor of the request of worker w is the owner or an administrator
AuthorOrAdmin(w, ownerID) == req[w].userID = ownerID \/ req[w].role = "admin"

C24_DeletePostIdempotent ==
    [][\A w \in Workers :
         (/\ req[w].kind = "DeletePostHandler" /\ req[w].again
          /\ pc[w] = "GetPostOwnerID" /\ pc'[w] = "idle" /\ ~req'[w].err) =>
             /\ out'.status = "Post deleted successfully."
             /\ UNCHANGED content]_vars

\* C25: a delete whose owner lookup succeeds and finds no row of the target is answered
\* NotFound there and then, and changes no table.
C25_DeleteOfMissingNotFound ==
    [][\A w \in Workers :
         /\ (/\ pc[w] = "GetPostOwnerID" /\ pc'[w] # pc[w] /\ ~req'[w].err
             /\ ~PostExists(req[w].target)) =>
               /\ pc'[w] = "idle" /\ out'.status = "Post not found."
               /\ UNCHANGED content
         /\ (/\ pc[w] = "GetCommentOwnerID" /\ pc'[w] # pc[w] /\ ~req'[w].err
             /\ ~CommentExists(req[w].target)) =>
               /\ pc'[w] = "idle" /\ out'.status = "Comment not found."
               /\ UNCHANGED content]_vars

\* a delete of the post has been answered NotFound with the post row absent and no
\* storage failure
C25_Witness ==
    /\ out.status = "Post not found."
    /\ posts = {}
    /\ \A w \in Workers : pc[w] = "idle" /\ ~req[w].err

\* the storage deletions of the two delete handlers
CascadeLabels == {"DeletePostCategories", "DeletePostComments", "DeletePostVotes",
                  "DeletePost", "DeleteCommentVotes", "DeleteComment"}

\* C26: when a storage deletion of a delete request fails, the request ends at once with
\* a server error and the failing step changes no table: what the earlier steps deleted
\* stays deleted, the rows of the later steps (the post or comment row among them) are
\* left as they are.
C26_PartialFailure ==
    [][\A w \in Workers :
         (pc[w] \in CascadeLabels /\ req'[w].err) =>
             /\ pc'[w] = "idle"
             /\ out'.status = "Server error."
             /\ UNCHANGED content]_vars

\* a post delete has failed part-way: the category links of the post are gone, the post
\* row is still there, and the request has been answered with the server error
C26_Witness ==
    /\ out.status = "Server error."
    /\ \E w \in Workers : pc[w] = "idle" /\ req[w].err
    /\ \E p \in posts : ~\E r \in post_categories : r.post_id = p.id
    /\ deletedPosts = {}

\* C27: a delete request that ends because one of its storage calls failed, the owner
\* lookup included, is answered with the generic server error.
C27_TransientIsServerError ==
    [][\A w \in Workers :
         (/\ pc[w] \in {"GetPostOwnerID", "GetCommentOwnerID"} \cup CascadeLabels
          /\ pc'[w] = "idle" /\ req'[w].err) =>
             out'.status = "Server error."]_vars

\* C28: in a store without foreign keys, once a delete of post P has reported success
\* no row refers to P or to a comment that was deleted with it: no category link,
\* comment or post vote of P, and no comment vote whose comment is gone.
C28_NoOrphans ==
    \A p \in deletedPosts :
        /\ PostGone(p)
        /\ \A r \in comment_votes : CommentExists(r.comment_id)

\* C29: when a create-post request that has inserted its post ends, in success or in
\* error, the post has between 1 and 3 category links; when an edit-post request that
\* has begun to rewrite the links of its post ends, the post has between 1 and 2.
C29_CategoryCount ==
    [][\A w \in Workers :
         LET links == {r \in post_categories' : r.post_id = req[w].target} IN
         /\ (pc[w] = "CreateAddPostCategory" /\ pc'[w] = "idle") =>
               Cardinality(links) \in 1..MaxCreateCategories
         /\ (pc[w] = "EditAddPostCategory" /\ pc'[w] = "idle") =>
               Cardinality(links) \in 1..MaxEditCategories]_vars

EditWriteLabels == {"UpdatePost", "EditDeletePostCategories", "EditAddPostCategory"}

\* C31: an edit of an existing post goes on from its owner lookup to its writes only if
\* the actor is the author of the post; for any other actor, an administrator included,
\* the request ends there with no table changed, answered Forbidden when the lookup
\* succeeded; so no request is ever at a write of an edit of a post of another user.
C31_EditRequiresOwnership ==
    [][\A w \in Workers :
         LET ownerID == GetPostOwnerID(posts, req[w].target) IN
         /\ (/\ pc[w] = "EditGetPostOwnerID" /\ pc'[w] # pc[w]
             /\ ownerID # 0 /\ ownerID # req[w].userID) =>
               /\ pc'[w] = "idle" /\ UNCHANGED content
               /\ req'[w].err \/ out'.status = "Forbidden"
         /\ Leaves(w, "EditGetPostOwnerID") => ownerID = req[w].userID
         /\ pc'[w] \in EditWriteLabels =>
               GetPostOwnerID(posts', req'[w].target) = req'[w].userID
      ]_vars

\* an edit has been answered Forbidden with no storage failure while the only post is
\* the one of the last registered user: the administrator asked, and the post and its
\* category link are as they were
C31_Witness ==
    /\ out.status = "Forbidden"
    /\ \A w \in Workers : pc[w] = "idle" /\ ~req[w].err
    /\ posts = {[id |-> 1, user_id |-> NumUsers]}
    /\ post_categories = {[post_id |-> 1, category_id |-> 1]}


\* C32: when the only two requests made so far are votes of one user on one target and
\* the second to write had read the vote before the first wrote, the vote after the
\* second write is the one that the two requests leave when run one after the other,
\* in one order or the other, from the vote both have read.
C32_Serializable ==
    [][\A w \in Workers :
         LET first == lastWrite[PairOf(req[w])]
             second == ActionOf(req[w].kind)
             v0 == first.prior IN
         (/\ nreq = 2 /\ WriteStep(w) /\ ~req[w].fresh
          /\ first.kind # "none" /\ v0 \in DOMAIN TransitionTable) =>
             StateOf(post_votes', comment_votes', req[w]) \in
                 {TransitionTable[TransitionTable[v0][first.kind]][second],
                  TransitionTable[TransitionTable[v0][second]][first.kind]}]_vars


\* C33: while deletes of post P run together with likes, dislikes and new comments on
\* P, every post whose delete has reported success is without post row, category links,
\* comments and post votes, at every moment from then on; and every row that a request
\* adds to post_votes or comments, or changes there, refers to a post whose row exists.
C33_DeleteLeavesNothing ==
    [][/\ \A p \in deletedPosts' : PostGone(p)'
       /\ \A r \in post_votes' \ post_votes : PostExists(r.post_id)
       /\ \A c \in comments' \ comments : PostExists(c.post_id)]_vars

\* a request that has inserted a comment on the post is still running when the delete
\* of the post has reported success, and nothing of the post is left
C33_Witness ==
    \E w \in Workers :
        /\ pc[w] = "CommentGetUsernameByID"
        /\ req[w].target \in deletedPosts
        /\ sqlite_sequence.comments > 1
        /\ PostGone(req[w].target)


\* C34: a login request that ends without handing out a token has deleted no session
\* row: the step that ends it leaves the sessions table as it is, and its
\* DeleteUserSessions, if it ran, has removed nothing.
C34_FailedLoginKeepsSessions ==
    [][\A w \in Workers :
         (/\ req[w].kind = "LoginHandler" /\ pc[w] # "idle" /\ pc'[w] = "idle"
          /\ out'.set_cookie = NoCookie) =>
             /\ sessions' = sessions
             /\ ~req[w].removed]_vars


\* the session rows that a step adds, removes or changes
ChangedSessions == (sessions \ sessions') \cup (sessions' \ sessions)

\* C35: a step of a login for user U adds or removes only session rows of U; a step of a
\* logout or of the cleanup of an expired session only removes, and only the row of the
\* token presented; no other step touches the table. So the row of every token of another
\* user, and of every other token, is the same before and after, and the token resolves
\* to the same user and role.
C35_SessionFrame ==
    [][\A w \in Workers :
         pc'[w] # pc[w] =>
            /\ CASE pc[w] \in {"DeleteUserSessions", "CreateSession"} ->
                       \A s \in ChangedSessions : s.user_id = req[w].userID
                 [] pc[w] \in {"DeleteSession", "DeleteExpiredSession"} ->
                       /\ sessions' \subseteq sessions
                       /\ \A s \in ChangedSessions : s.session_id = req[w].cookie
                 [] OTHER -> sessions' = sessions
            /\ \A t \in 1..nextToken :
                  LET row == GetSessionData(sessions, t) IN
                  (/\ row # NoRow
                   /\ pc[w] \in {"DeleteUserSessions", "CreateSession"} =>
                          row.user_id # req[w].userID
                   /\ pc[w] \in {"DeleteSession", "DeleteExpiredSession"} =>
                          t # req[w].cookie) =>
                      /\ GetSessionData(sessions', t) = row
                      /\ Resolves(sessions', t, now) <=> Resolves(sessions, t, now)]_vars

\* a login has replaced the session of its user by the one it has handed out, and a
\* token that another user held from the start still resolves
C35_Witness ==
    \E t \in UserIDs :
        LET new == GetSessionData(sessions, out.set_cookie) IN
        /\ out.set_cookie \notin UserIDs
        /\ new # NoRow
        /\ GetSessionData(sessions, new.user_id) = NoRow
        /\ Resolves(sessions, t, now)
        /\ GetSessionData(sessions, t).user_id # new.user_id


\* the rows of a vote table that are not the row of user userID on target targetID
OtherPostVotes(tbl, userID, targetID) ==
    {r \in tbl : ~(r.user_id = userID /\ r.post_id = targetID)}

OtherCommentVotes(tbl, userID, targetID) ==
    {r \in tbl : ~(r.user_id = userID /\ r.comment_id = targetID)}

C37_UsernamesUniqueNoCase ==
    \A u \in users, v \in users :
        ToLowerUsername(u.username) = ToLowerUsername(v.username) => u = v


\* C38: every step keeps each user row with its role, and a row it adds to users has the
\* role user; a session row it adds carries the role of its user's row, and no session
\* row changes afterwards; and when IsAuthenticated accepts a token, the user id and role
\* it returns are those of the token's session row.
C38_NoEscalation ==
    [][/\ \A u \in users : \E v \in users' : v.id = u.id /\ v.role = u.role
       /\ \A v \in users' :
            (\A u \in users : u.id # v.id) => v.role = "user"
       /\ \A s \in sessions' \ sessions :
            /\ \E u \in users : u.id = s.user_id /\ u.role = s.role
            /\ GetSessionData(sessions, s.session_id) = NoRow
       /\ \A w \in Workers :
            (pc[w] = "idle" /\ pc'[w] = "SessionsStore") =>
                LET row == GetSessionData(sessions, req'[w].cookie) IN
                /\ row # NoRow
                /\ req'[w].userID = row.user_id /\ req'[w].role = row.role]_vars

\* the administrator has changed the username through a session that resolved, and is
\* still the administrator; a registration has added a user, with the role user
C38_Witness ==
    \E u \in users, v \in users :
        /\ u.id = 1 /\ u.username # InitialUsernames[1] /\ u.role = "admin"
        /\ v.id \notin UserIDs /\ v.role = "user"


\* the rows of a table of comments or comment votes that are not those of comment c
OtherComments(tbl, c) == {x \in tbl : x.id # c}

OtherCommentsVotes(tbl, c) == {r \in tbl : r.comment_id # c}

\* C39: a delete of comment C that reports success leaves no row of C in comments and no
\* vote on C in comment_votes; and every step of a delete of comment C leaves the rows of
\* the other comments, the votes on them, and the posts with their votes and category
\* links as they are.
C39_DeleteCommentFrame ==
    [][\A w \in Workers :
         LET c == req[w].target IN
         /\ (/\ pc[w] \in {"GetCommentOwnerID", "DeleteCommentVotes", "DeleteComment"}
             /\ pc'[w] # pc[w]) =>
               /\ UNCHANGED <<posts, post_votes, post_categories>>
               /\ OtherComments(comments', c) = OtherComments(comments, c)
               /\ OtherCommentsVotes(comment_votes', c) = OtherCommentsVotes(comment_votes, c)
         /\ (pc[w] = "DeleteComment" /\ pc'[w] = "idle" /\ ~req'[w].err) =>
               /\ out'.status = "Comment deleted."
               /\ ~\E x \in comments' : x.id = c
               /\ ~\E r \in comment_votes' : r.comment_id = c]_vars

\* comment 1 and its like have been deleted with success; comment 2, the two votes on
\* it, and the post with its votes and its category link are as they were
C39_Witness ==
    /\ out.status = "Comment deleted."
    /\ comments = {[id |-> 2, post_id |-> 1, user_id |-> NumUsers]}
    /\ comment_votes = {[user_id |-> 1, comment_id |-> 2, vote |-> -1],
                        [user_id |-> NumUsers, comment_id |-> 2, vote |-> 1]}
    /\ posts = {[id |-> 1, user_id |-> NumUsers]}
    /\ Cardinality(post_votes) = 2 /\ Cardinality(post_categories) = 1

=============================================================================
